---------------------------- MODULE Spec2Model ----------------------------
(***************************************************************************)
(* Symmetry-aware balloon-grid reconstruction of the GLL plugin:           *)
(*   src/src/shared/polar-utils.js   getBalloonGrid                        *)
(*   src/src/shared/balloon-utils.ts balloonResponseIndex,                 *)
(*       getResponseWithSymmetry, computeGlobalMaxLevel,                   *)
(*       clearGlobalMaxCache, buildFullSphereLevels,                       *)
(*       buildBalloonGeometryData                                          *)
(*                                                                         *)
(* Angles, steps and levels are integers.  A JavaScript value that may be  *)
(* a number, NaN, +/-Infinity, a string or undefined is a record           *)
(* [k |-> kind, v |-> integer]; a quotient is a reduced fraction           *)
(* [k |-> kind, n |-> numerator, d |-> denominator].  The source objects   *)
(* use the PascalCase field names (Definition.BalloonData.                 *)
(* AngularResolution, Responses, Level).                                   *)
(*                                                                         *)
(* The WASM loader (src/unnamed/part_010, imported as ./wasm-loader) and    *)
(* the GLLProvider (src/src/shared/gll-context.js) are asynchronous: an     *)
(* async function runs from one await to the next in one step, and the      *)
(* browser completes the awaited operations in any order.                   *)
(***************************************************************************)
EXTENDS Integers, Sequences, FiniteSets, TLC

VARIABLES sources, globalMaxCache, callLog, mutations, request, last,
          loader, provider, callers

\* the state of the balloon core, and the state of the WASM loader, of the
\* GLLProvider and of the asynchronous calls in flight
coreVars == <<sources, globalMaxCache, callLog, mutations, request, last>>
browserVars == <<loader, provider, callers>>
vars == <<sources, globalMaxCache, callLog, mutations, request, last,
          loader, provider, callers>>

(***************************************************************************)
(* Bounds of the model                                                     *)
(***************************************************************************)
NumSources == 2
MaxFrequencyIndex == 2
MaxMutations == 1
MaxMeridianCount == 4
MaxParallelCount == 5
NumCallers == 2
MaxStarts == 2

(***************************************************************************)
(* JavaScript values                                                       *)
(***************************************************************************)
Num(x) == [k |-> "num", v |-> x]
NaN == [k |-> "nan", v |-> 0]
PosInfinity == [k |-> "inf", v |-> 0]
NegInfinity == [k |-> "ninf", v |-> 0]
Str == [k |-> "str", v |-> 0]
Undefined == [k |-> "undef", v |-> 0]

\* typeof x === 'number' && Number.isFinite( x )
IsFiniteNumber(x) == x.k = "num"

\* JavaScript truthiness of a number-or-undefined value (the operand of ! and ||)
Truthy(x) == \/ x.k = "num" /\ x.v # 0
             \/ x.k \in {"inf", "ninf", "str"}

\* a ?? b
Coalesce(a, b) == IF a.k = "undef" THEN b ELSE a

\* a % n of JavaScript: the remainder takes the sign of the dividend
JsRem(a, n) == IF a >= 0 THEN a % n ELSE -((-a) % n)

\* Math.round( num / den ), den # 0: the nearest integer, halves towards +Infinity
MathRound(num, den) ==
    LET nn == IF den < 0 THEN -num ELSE num
        dd == IF den < 0 THEN -den ELSE den
        t == 2 * nn + dd
    IN  IF t >= 0 THEN t \div (2 * dd)
        ELSE -(((-t) + 2 * dd - 1) \div (2 * dd))

MathMax(a, b) == IF a >= b THEN a ELSE b
MathMin(a, b) == IF a <= b THEN a ELSE b

(***************************************************************************)
(* SYMMETRY (balloon-utils.ts 21-27)                                       *)
(***************************************************************************)
SYMMETRY_NONE == 0
SYMMETRY_VERTICAL == 1
SYMMETRY_HORIZONTAL == 2
SYMMETRY_QUARTER == 3
SYMMETRY_AXIAL == 4

(***************************************************************************)
(* getBalloonGrid (polar-utils.js 105-160).  ang is the AngularResolution  *)
(* record of the source, or NoAng when the source has none.                *)
(***************************************************************************)
NoAng == [present |-> FALSE, MeridianStep |-> Undefined, ParallelStep |-> Undefined,
          Symmetry |-> Undefined, FrontHalfOnly |-> FALSE]

NullGrid == [available |-> FALSE]

\* mutant: Quarter symmetry counted like a half sphere
MeridianCountFor_QuarterAsHalf(symmetry, meridianStep, fullMeridianCount) ==
    CASE symmetry = 4 -> 1
      [] symmetry \in {1, 2, 3} -> MathMax(1, MathRound(180, meridianStep) + 1)
      [] OTHER -> fullMeridianCount

\* mutant: Vertical and Horizontal symmetry counted like a quarter sphere
MeridianCountFor_HalfAsQuarter(symmetry, meridianStep, fullMeridianCount) ==
    CASE symmetry = 4 -> 1
      [] symmetry \in {1, 2, 3} -> MathMax(1, MathRound(90, meridianStep) + 1)
      [] OTHER -> fullMeridianCount

MeridianCountFor(symmetry, meridianStep, fullMeridianCount) ==
    CASE symmetry = 4 -> 1
      [] symmetry = 3 -> MathMax(1, MathRound(90, meridianStep) + 1)
      [] symmetry \in {1, 2} -> MathMax(1, MathRound(180, meridianStep) + 1)
      [] OTHER -> fullMeridianCount

getBalloonGrid(source) ==
    LET ang == source.ang
        meridianStep == ang.MeridianStep
        parallelStep == ang.ParallelStep
    IN  IF ~ang.present \/ ~Truthy(meridianStep) \/ ~Truthy(parallelStep)
        THEN NullGrid
        ELSE
          LET symmetry == Coalesce(ang.Symmetry, Num(0)).v
              frontHalfOnly == ang.FrontHalfOnly
              ms == meridianStep.v
              ps == parallelStep.v
              fullMeridianCount == MathMax(1, MathRound(360, ms))
              fullParallelCount == MathMax(1, MathRound(180, ps) + 1)
              meridianCount == MeridianCountFor(symmetry, ms, fullMeridianCount)
              parallelCount == IF frontHalfOnly
                               THEN MathMax(1, MathRound(90, ps) + 1)
                               ELSE fullParallelCount
          IN  [available |-> TRUE,
               meridianCount |-> meridianCount,
               parallelCount |-> parallelCount,
               symmetry |-> symmetry,
               frontHalfOnly |-> frontHalfOnly,
               measuredMeridianDeg |-> (meridianCount - 1) * ms,
               measuredParallelDeg |-> (parallelCount - 1) * ps,
               meridianStep |-> ms,
               parallelStep |-> ps,
               responseCount |-> Len(source.Responses),
               fullMeridianCount |-> fullMeridianCount,
               fullParallelCount |-> fullParallelCount]

(***************************************************************************)
(* balloonResponseIndex (balloon-utils.ts 74-100)                          *)
(***************************************************************************)
\* mutant: the poles are not deduplicated
balloonResponseIndex_NoPoles(meridianIdx, parallelIdx, meridianCount, parallelCount, frontHalfOnly) ==
    LET skippedPerMer == IF frontHalfOnly THEN 1 ELSE 2
        pointsPerMer == parallelCount - skippedPerMer
    IN  IF meridianIdx = 0 THEN parallelIdx
        ELSE parallelCount + (meridianIdx - 1) * pointsPerMer + (parallelIdx - 1)

\* mutant: one pole skipped per meridian whatever frontHalfOnly is
balloonResponseIndex_SkipOne(meridianIdx, parallelIdx, meridianCount, parallelCount, frontHalfOnly) ==
    LET lastParIdx == parallelCount - 1
        isFrontPole == parallelIdx = 0
        isBackPole == parallelIdx = lastParIdx /\ ~frontHalfOnly
        pointsPerMer == parallelCount - 1
    IN  IF isFrontPole \/ isBackPole THEN parallelIdx
        ELSE IF meridianIdx = 0 THEN parallelIdx
        ELSE parallelCount + (meridianIdx - 1) * pointsPerMer + (parallelIdx - 1)

balloonResponseIndex(meridianIdx, parallelIdx, meridianCount, parallelCount, frontHalfOnly) ==
    LET lastParIdx == parallelCount - 1
        isFrontPole == parallelIdx = 0
        isBackPole == parallelIdx = lastParIdx /\ ~frontHalfOnly
        skippedPerMer == IF frontHalfOnly THEN 1 ELSE 2
        pointsPerMer == parallelCount - skippedPerMer
    IN  IF isFrontPole \/ isBackPole THEN parallelIdx
        ELSE IF meridianIdx = 0 THEN parallelIdx
        ELSE parallelCount + (meridianIdx - 1) * pointsPerMer + (parallelIdx - 1)

(***************************************************************************)
(* getResponseWithSymmetry (balloon-utils.ts 111-214)                      *)
(***************************************************************************)
\* null: no response
NoResponse == [id |-> -1, Level |-> <<>>]

\* lines 123-156: normalisation and symmetry folding of the azimuth
\* mutant: Axial symmetry is not folded
FoldAzimuth_NoAxial(symmetry, azimuthDeg) ==
    LET a == JsRem(JsRem(azimuthDeg, 360) + 360, 360)
    IN  CASE symmetry = SYMMETRY_QUARTER ->
                IF a >= 270 THEN 360 - a
                ELSE IF a >= 180 THEN a - 180
                ELSE IF a >= 90 THEN 180 - a
                ELSE a
          [] symmetry = SYMMETRY_VERTICAL ->
                IF a >= 180 THEN 360 - a ELSE a
          [] symmetry = SYMMETRY_HORIZONTAL ->
                LET b == a - 90
                IN  IF b < 0 THEN -b
                    ELSE IF b >= 180 THEN 360 - b
                    ELSE b
          [] OTHER -> a

\* mutant: Quarter symmetry folds like Vertical symmetry
FoldAzimuth_QuarterAsVertical(symmetry, azimuthDeg) ==
    LET a == JsRem(JsRem(azimuthDeg, 360) + 360, 360)
    IN  CASE symmetry = SYMMETRY_AXIAL -> 0
          [] symmetry = SYMMETRY_QUARTER \/ symmetry = SYMMETRY_VERTICAL ->
                IF a >= 180 THEN 360 - a ELSE a
          [] symmetry = SYMMETRY_HORIZONTAL ->
                LET b == a - 90
                IN  IF b < 0 THEN -b
                    ELSE IF b >= 180 THEN 360 - b
                    ELSE b
          [] OTHER -> a

\* mutant: Horizontal symmetry folds without the shift by 90
FoldAzimuth_HorizontalUnshifted(symmetry, azimuthDeg) ==
    LET a == JsRem(JsRem(azimuthDeg, 360) + 360, 360)
    IN  CASE symmetry = SYMMETRY_AXIAL -> 0
          [] symmetry = SYMMETRY_QUARTER ->
                IF a >= 270 THEN 360 - a
                ELSE IF a >= 180 THEN a - 180
                ELSE IF a >= 90 THEN 180 - a
                ELSE a
          [] symmetry = SYMMETRY_VERTICAL \/ symmetry = SYMMETRY_HORIZONTAL ->
                IF a >= 180 THEN 360 - a ELSE a
          [] OTHER -> a

FoldAzimuth(symmetry, azimuthDeg) ==
    LET a == JsRem(JsRem(azimuthDeg, 360) + 360, 360)
    IN  CASE symmetry = SYMMETRY_AXIAL -> 0
          [] symmetry = SYMMETRY_QUARTER ->
                IF a >= 270 THEN 360 - a
                ELSE IF a >= 180 THEN a - 180
                ELSE IF a >= 90 THEN 180 - a
                ELSE a
          [] symmetry = SYMMETRY_VERTICAL ->
                IF a >= 180 THEN 360 - a ELSE a
          [] symmetry = SYMMETRY_HORIZONTAL ->
                LET b == a - 90
                IN  IF b < 0 THEN -b
                    ELSE IF b >= 180 THEN 360 - b
                    ELSE b
          [] OTHER -> a

\* mutant: the parallel is mirrored before the front-half-only test
FoldParallel_MirrorFirst(grid, parallelDeg) ==
    LET canMirrorParallel == grid.symmetry = SYMMETRY_HORIZONTAL
                             \/ grid.symmetry = SYMMETRY_QUARTER
        mirrored == 180 - parallelDeg
    IN  IF parallelDeg < 0 \/ parallelDeg > 180 THEN -1
        ELSE IF parallelDeg > grid.measuredParallelDeg
             THEN IF canMirrorParallel /\ mirrored <= grid.measuredParallelDeg
                  THEN mirrored
                  ELSE -1
             ELSE IF grid.frontHalfOnly /\ parallelDeg > 90 THEN -1
             ELSE parallelDeg

\* mutant: every symmetry mirrors the parallel
FoldParallel_AlwaysMirror(grid, parallelDeg) ==
    LET mirrored == 180 - parallelDeg
    IN  IF parallelDeg < 0 \/ parallelDeg > 180 THEN -1
        ELSE IF grid.frontHalfOnly /\ parallelDeg > 90 THEN -1
        ELSE IF parallelDeg > grid.measuredParallelDeg
             THEN IF mirrored <= grid.measuredParallelDeg
                  THEN mirrored
                  ELSE -1
             ELSE parallelDeg

\* lines 158-180: the parallel looked up, or -1 when the request is rejected
FoldParallel(grid, parallelDeg) ==
    LET canMirrorParallel == grid.symmetry = SYMMETRY_HORIZONTAL
                             \/ grid.symmetry = SYMMETRY_QUARTER
        mirrored == 180 - parallelDeg
    IN  IF parallelDeg < 0 \/ parallelDeg > 180 THEN -1
        ELSE IF grid.frontHalfOnly /\ parallelDeg > 90 THEN -1
        ELSE IF parallelDeg > grid.measuredParallelDeg
             THEN IF canMirrorParallel /\ mirrored <= grid.measuredParallelDeg
                  THEN mirrored
                  ELSE -1
             ELSE parallelDeg

\* mutant: an index past the end is clamped to the last response
ResponseAt_Clamped(responses, responseIndex) ==
    IF responseIndex >= 0
    THEN responses[MathMin(responseIndex, Len(responses) - 1) + 1]
    ELSE NoResponse

\* lines 205-213: the response stored at the index, if the array reaches it (an
\* empty slot of the array is NoResponse itself)
ResponseAt(responses, responseIndex) ==
    IF responseIndex >= 0 /\ responseIndex < Len(responses)
    THEN responses[responseIndex + 1]
    ELSE NoResponse

getResponseWithSymmetry(source, grid, azimuthDeg, parallelDeg) ==
    LET responses == source.Responses
    IN  IF Len(responses) = 0 \/ ~grid.available THEN NoResponse
        ELSE
          LET lookupAzimuth == FoldAzimuth(grid.symmetry, azimuthDeg)
              lookupParallel == FoldParallel(grid, parallelDeg)
          IN  IF lookupParallel < 0 THEN NoResponse
              ELSE
                LET meridianIdx == MathRound(lookupAzimuth, grid.meridianStep)
                    parallelIdx == MathRound(lookupParallel, grid.parallelStep)
                IN  IF \/ meridianIdx < 0
                       \/ meridianIdx >= grid.meridianCount
                       \/ parallelIdx < 0
                       \/ parallelIdx >= grid.parallelCount
                    THEN NoResponse
                    ELSE
                      LET responseIndex == balloonResponseIndex(
                              meridianIdx, parallelIdx, grid.meridianCount,
                              grid.parallelCount, grid.frontHalfOnly)
                      IN  ResponseAt(responses, responseIndex)

(***************************************************************************)
(* polar-utils.js keeps private copies of the two functions:               *)
(* balloonResponseIndex (172-189) and getResponseWithSymmetry (200-288),   *)
(* the latter with the additional test of the angular resolution at 205.   *)
(***************************************************************************)
balloonResponseIndex_polar(meridianIdx, parallelIdx, meridianCount, parallelCount, frontHalfOnly) ==
    LET lastParIdx == parallelCount - 1
        isFrontPole == parallelIdx = 0
        isBackPole == parallelIdx = lastParIdx /\ ~frontHalfOnly
        skippedPerMer == IF frontHalfOnly THEN 1 ELSE 2
        pointsPerMer == parallelCount - skippedPerMer
    IN  IF isFrontPole \/ isBackPole THEN parallelIdx
        ELSE IF meridianIdx = 0 THEN parallelIdx
        ELSE parallelCount + (meridianIdx - 1) * pointsPerMer + (parallelIdx - 1)

getResponseWithSymmetry_polar(source, grid, azimuthDeg, parallelDeg) ==
    LET responses == source.Responses
    IN  IF Len(responses) = 0 \/ ~source.ang.present \/ ~grid.available THEN NoResponse
        ELSE
          LET lookupAzimuth == FoldAzimuth(grid.symmetry, azimuthDeg)
              lookupParallel == FoldParallel(grid, parallelDeg)
          IN  IF lookupParallel < 0 THEN NoResponse
              ELSE
                LET meridianIdx == MathRound(lookupAzimuth, grid.meridianStep)
                    parallelIdx == MathRound(lookupParallel, grid.parallelStep)
                IN  IF \/ meridianIdx < 0
                       \/ meridianIdx >= grid.meridianCount
                       \/ parallelIdx < 0
                       \/ parallelIdx >= grid.parallelCount
                    THEN NoResponse
                    ELSE ResponseAt(responses,
                                    balloonResponseIndex_polar(
                                        meridianIdx, parallelIdx, grid.meridianCount,
                                        grid.parallelCount, grid.frontHalfOnly))

(***************************************************************************)
(* computeGlobalMaxLevel (balloon-utils.ts 223-251): the scan of lines     *)
(* 229-245.  globalMax starts at -Infinity.                                *)
(***************************************************************************)
RECURSIVE ScanLevels(_, _)
ScanLevels(levels, globalMax) ==
    IF levels = <<>> THEN globalMax
    ELSE LET level == Head(levels)
         IN  IF IsFiniteNumber(level) /\ (globalMax.k = "ninf" \/ level.v > globalMax.v)
             THEN ScanLevels(Tail(levels), level)
             ELSE ScanLevels(Tail(levels), globalMax)

\* the loop of line 233 over responses[lo..hi], in order.  The range is halved
\* and the running maximum of the first half is evaluated before the second
\* half is scanned, so that the evaluation depth stays logarithmic.
RECURSIVE ScanResponses(_, _, _, _)
ScanResponses(responses, lo, hi, globalMax) ==
    IF lo > hi THEN globalMax
    ELSE IF lo = hi THEN ScanLevels(responses[lo].Level, globalMax)
    ELSE LET mid == (lo + hi) \div 2
             firstHalf == ScanResponses(responses, lo, mid, globalMax)
         IN  IF firstHalf.k = "ninf"
             THEN ScanResponses(responses, mid + 1, hi, NegInfinity)
             ELSE ScanResponses(responses, mid + 1, hi, Num(firstHalf.v))

\* mutant: the running maximum starts at 0 instead of -Infinity
ScanGlobalMax_FromZero(source) ==
    ScanResponses(source.Responses, 1, Len(source.Responses), Num(0)).v

ScanGlobalMax(source) ==
    LET globalMax == ScanResponses(source.Responses, 1, Len(source.Responses), NegInfinity)
    IN  IF globalMax.k = "ninf" THEN 0 ELSE globalMax.v

\* globalMaxCache (line 16): one entry per source object, or none
NoEntry == [has |-> FALSE, value |-> 0]
Entry(x) == [has |-> TRUE, value |-> x]

\* mutant: the cache is not consulted
GlobalMaxOf_Rescan(cache, s, source) == ScanGlobalMax(source)

\* the value computeGlobalMaxLevel( source ) returns with the cache as it is
GlobalMaxOf(cache, s, source) ==
    IF cache[s].has THEN cache[s].value ELSE ScanGlobalMax(source)

\* mutant: the entry is written anew at every call
CacheAfterCompute_Overwrite(cache, s, source) ==
    [cache EXCEPT ![s] = Entry(ScanGlobalMax(source))]

\* the cache after computeGlobalMaxLevel( source ) (line 248)
CacheAfterCompute(cache, s, source) ==
    IF cache[s].has THEN cache
    ELSE [cache EXCEPT ![s] = Entry(ScanGlobalMax(source))]

(***************************************************************************)
(* buildFullSphereLevels (balloon-utils.ts 273-302)                        *)
(***************************************************************************)
MISSING_LEVEL == -100

\* responseLevels[ frequencyIndex ]
LevelAt(response, frequencyIndex) ==
    IF frequencyIndex >= 0 /\ frequencyIndex < Len(response.Level)
    THEN response.Level[frequencyIndex + 1]
    ELSE Undefined

\* mutant: only an absent level is replaced
PlaceholderIfMissing_AbsentOnly(level) ==
    IF level.k = "undef" THEN Num(-100) ELSE level

\* line 295
PlaceholderIfMissing(level) ==
    IF IsFiniteNumber(level) THEN level ELSE Num(MISSING_LEVEL)

buildFullSphereLevels(source, grid, frequencyIndex) ==
    [pIdx \in 1..grid.fullParallelCount |->
        [mIdx \in 1..grid.fullMeridianCount |->
            PlaceholderIfMissing(
                LevelAt(getResponseWithSymmetry(source, grid,
                            (mIdx - 1) * grid.meridianStep,
                            (pIdx - 1) * grid.parallelStep),
                        frequencyIndex))]]

(***************************************************************************)
(* buildBalloonGeometryData (balloon-utils.ts 383-462)                     *)
(***************************************************************************)
RECURSIVE Gcd(_, _)
Gcd(a, b) == IF b = 0 THEN a ELSE Gcd(b, a % b)

Abs(x) == IF x < 0 THEN -x ELSE x

\* the quotient n / d, d # 0, in lowest terms with a positive denominator
Frac(n, d) ==
    LET g == Gcd(Abs(n), Abs(d))
        sgn == IF d < 0 THEN -1 ELSE 1
    IN  [k |-> "num", n |-> (sgn * n) \div g, d |-> Abs(d) \div g]

FracNaN == [k |-> "nan", n |-> 0, d |-> 1]
FracOne == [k |-> "num", n |-> 1, d |-> 1]
FracZero == [k |-> "num", n |-> 0, d |-> 1]

\* mutant: the level is measured from the top of the display window
Normalized_FromMax(level, displayMin, dbRange) ==
    LET num == level - (displayMin + dbRange)
    IN  IF dbRange = 0
        THEN IF num > 0 THEN FracOne
             ELSE IF num < 0 THEN FracZero
             ELSE FracNaN
        ELSE LET q == Frac(num, dbRange)
             IN  IF q.n >= q.d THEN FracOne
                 ELSE IF q.n <= 0 THEN FracZero
                 ELSE q

\* line 426: Math.max( 0, Math.min( 1, ( level - displayMin ) / dbRange ) )
Normalized(level, displayMin, dbRange) ==
    LET num == level - displayMin
    IN  IF dbRange = 0
        THEN IF num > 0 THEN FracOne
             ELSE IF num < 0 THEN FracZero
             ELSE FracNaN
        ELSE LET q == Frac(num, dbRange)
             IN  IF q.n >= q.d THEN FracOne
                 ELSE IF q.n <= 0 THEN FracZero
                 ELSE q

\* lines 404-405, 429: 0.3 * scale + 0.9 * scale * normalized
Radius(scale, normalized) ==
    IF normalized.k = "nan" THEN FracNaN
    ELSE Frac(scale * (3 * normalized.d + 9 * normalized.n), 10 * normalized.d)

\* lines 414-439: the data of vertex (pIdx, mIdx); sphericalToCartesian and
\* levelToColor are kept as terms over their arguments
VertexAt(levels, grid, pIdx, mIdx, displayMin, dbRange, scale) ==
    LET levelPIdx == MathMin(pIdx, grid.fullParallelCount - 1)
        levelMIdx == mIdx % grid.fullMeridianCount
        level == levels[levelPIdx + 1][levelMIdx + 1].v
        normalized == Normalized(level, displayMin, dbRange)
    IN  [pIdx |-> pIdx, mIdx |-> mIdx, level |-> level,
         normalized |-> normalized, radius |-> Radius(scale, normalized)]

Position(vertex, axis) == [axis |-> axis, radius |-> vertex.radius,
                           pIdx |-> vertex.pIdx, mIdx |-> vertex.mIdx]
Colour(vertex, channel) == [channel |-> channel, normalized |-> vertex.normalized]

\* mutant: the rows are taken to be fullMeridianCount vertices long
QuadIndices_ShortRow(grid, q) ==
    LET meridianVertCount == grid.fullMeridianCount
        pIdx == q \div grid.fullMeridianCount
        mIdx == q % grid.fullMeridianCount
        current == pIdx * meridianVertCount + mIdx
        next == current + meridianVertCount
    IN  <<current, next, current + 1, current + 1, next, next + 1>>

\* lines 441-452: the index entries of quad number q (row-major, 0-based)
QuadIndices(grid, q) ==
    LET meridianVertCount == grid.fullMeridianCount + 1
        pIdx == q \div grid.fullMeridianCount
        mIdx == q % grid.fullMeridianCount
        current == pIdx * meridianVertCount + mIdx
        next == current + meridianVertCount
    IN  <<current, next, current + 1, current + 1, next, next + 1>>

NullGeometry == [available |-> FALSE]

\* mutant: no extra column of vertices closing the seam
GeometryOfVertices_NoSeam(grid, vertex, globalMax, displayMin, displayMax) ==
    LET vertexCount == grid.fullParallelCount * grid.fullMeridianCount
        quadCount == (grid.fullParallelCount - 1) * grid.fullMeridianCount
        axes == <<"x", "y", "z">>
        channels == <<"r", "g", "b">>
    IN  [available |-> TRUE,
         vertices |-> [i \in 1..(3 * vertexCount) |->
                         Position(vertex[(i - 1) \div 3], axes[((i - 1) % 3) + 1])],
         colors |-> [i \in 1..(3 * vertexCount) |->
                         Colour(vertex[(i - 1) \div 3], channels[((i - 1) % 3) + 1])],
         indices |-> [i \in 1..(6 * quadCount) |->
                         QuadIndices(grid, (i - 1) \div 6)[((i - 1) % 6) + 1]],
         globalMax |-> globalMax,
         displayMin |-> displayMin,
         displayMax |-> displayMax]

\* lines 407-461: the buffers, given the data of the vertices (0-based)
GeometryOfVertices(grid, vertex, globalMax, displayMin, displayMax) ==
    LET vertexCount == grid.fullParallelCount * (grid.fullMeridianCount + 1)
        quadCount == (grid.fullParallelCount - 1) * grid.fullMeridianCount
        axes == <<"x", "y", "z">>
        channels == <<"r", "g", "b">>
    IN  [available |-> TRUE,
         vertices |-> [i \in 1..(3 * vertexCount) |->
                         Position(vertex[(i - 1) \div 3], axes[((i - 1) % 3) + 1])],
         colors |-> [i \in 1..(3 * vertexCount) |->
                         Colour(vertex[(i - 1) \div 3], channels[((i - 1) % 3) + 1])],
         indices |-> [i \in 1..(6 * quadCount) |->
                         QuadIndices(grid, (i - 1) \div 6)[((i - 1) % 6) + 1]],
         globalMax |-> globalMax,
         displayMin |-> displayMin,
         displayMax |-> displayMax]

\* mutant: the display window is anchored at the largest level of the
\* frequency shown
GeometryOfLevels_LocalMax(grid, levels, options, globalMax) ==
    LET shown == UNION {{levels[p][m].v : m \in DOMAIN levels[p]} : p \in DOMAIN levels}
        localMax == CHOOSE x \in shown : \A y \in shown : y <= x
        displayMin == localMax - options.dbRange
        meridianVertCount == grid.fullMeridianCount + 1
        vertexCount == grid.fullParallelCount * meridianVertCount
    IN  CHOOSE data \in
          {GeometryOfVertices(grid, vertex, localMax, displayMin, localMax) :
             vertex \in {[i \in 0..(vertexCount - 1) |->
                            VertexAt(levels, grid, i \div meridianVertCount,
                                     i % meridianVertCount, displayMin,
                                     options.dbRange, options.scale)]}} : TRUE

\* lines 399-439.  The intermediate results (grid, levels, the vertex data) are
\* bound by a quantifier over a one-element set: TLC evaluates such a value
\* once, and a LET definition anew at every use.
GeometryOfLevels(grid, levels, options, globalMax) ==
    LET displayMin == globalMax - options.dbRange
        displayMax == globalMax
        meridianVertCount == grid.fullMeridianCount + 1
        vertexCount == grid.fullParallelCount * meridianVertCount
    IN  CHOOSE data \in
          {GeometryOfVertices(grid, vertex, globalMax, displayMin, displayMax) :
             vertex \in {[i \in 0..(vertexCount - 1) |->
                            VertexAt(levels, grid, i \div meridianVertCount,
                                     i % meridianVertCount, displayMin,
                                     options.dbRange, options.scale)]}} : TRUE

\* line 396
GeometryOfGrid(source, grid, options, globalMax) ==
    CHOOSE data \in
      {GeometryOfLevels(grid, levels, options, globalMax) :
         levels \in {buildFullSphereLevels(source, grid, options.frequencyIndex)}} : TRUE

\* globalMax is what computeGlobalMaxLevel( source ) returns at line 399
buildBalloonGeometryData(source, options, globalMax) ==
    CHOOSE data \in
      {IF grid.available
       THEN GeometryOfGrid(source, grid, options, globalMax)
       ELSE NullGeometry : grid \in {getBalloonGrid(source)}} : TRUE

(***************************************************************************)
(* computePolarSlices (polar-utils.js 297-389) and its helpers.            *)
(* Frequencies are integers; the on-axis definition has one band per       *)
(* octave (or none), so that buildLogFrequencies yields start_freq * 2^i.  *)
(***************************************************************************)
Null == [k |-> "null", v |-> 0]

POLAR_STEP_DEG == 10

\* lines 17-19 and 20-22: the two loops of buildPolarAngles
RECURSIVE PolarAnglesDown(_, _)
PolarAnglesDown(angle, stepDeg) ==
    IF angle >= -180
    THEN <<angle>> \o PolarAnglesDown(angle - stepDeg, stepDeg)
    ELSE <<>>

RECURSIVE PolarAnglesBack(_, _)
PolarAnglesBack(angle, stepDeg) ==
    IF angle > 0
    THEN <<angle>> \o PolarAnglesBack(angle - stepDeg, stepDeg)
    ELSE <<>>

\* mutant: the angles in ascending order from 0
buildPolarAngles_Ascending(stepDeg) ==
    [i \in 1..(360 \div stepDeg) |->
        IF (i - 1) * stepDeg <= 180 THEN (i - 1) * stepDeg ELSE (i - 1) * stepDeg - 360]

buildPolarAngles(stepDeg) ==
    <<0>> \o PolarAnglesDown(-stepDeg, stepDeg) \o PolarAnglesBack(180 - stepDeg, stepDeg)

\* formatPolarLabel (lines 32-41): the label as a term
formatPolarLabel(angleDeg) ==
    LET normalized == JsRem(angleDeg + 180, 360) - 180
    IN  IF Abs(normalized) = 180 THEN [k |-> "pm180", v |-> 180]
        ELSE IF normalized = 0 THEN [k |-> "zero", v |-> 0]
        ELSE [k |-> "deg", v |-> normalized]

\* the optional fields of the source objects
NoOnAxis == [present |-> FALSE]
OnAxisOf(source) ==
    IF "OnAxisSpectrum" \in DOMAIN source THEN source.OnAxisSpectrum ELSE NoOnAxis
FrequenciesOf(response) ==
    IF "Frequencies" \in DOMAIN response THEN response.Frequencies ELSE <<>>

RECURSIVE Pow2(_)
Pow2(i) == IF i = 0 THEN 1 ELSE 2 * Pow2(i - 1)

\* buildLogFrequencies (lines 50-71).  definition holds bands_per_octave (1,
\* or 0 where Number() gives 0 or NaN), start_freq and point_count (likewise);
\* countOverride is 0 when it is undefined or 0.  With one band per octave
\* Math.pow( 2, i / bandsPerOctave ) is 2^i.
NoFrequencies == [isArray |-> FALSE, values |-> <<>>]
buildLogFrequencies(definition, countOverride) ==
    IF ~definition.present THEN NoFrequencies
    ELSE IF definition.bands_per_octave = 0 \/ definition.start_freq = 0
    THEN NoFrequencies
    ELSE LET count == IF countOverride > 0 THEN countOverride ELSE definition.point_count
         IN  IF count <= 0 THEN NoFrequencies
             ELSE [isArray |-> TRUE,
                   values |-> [i \in 1..count |->
                                 Num(definition.start_freq * Pow2(i - 1))]]

\* frequenciesMatch (lines 80-97), b an array: the tolerance is 1e-3 relative
frequenciesMatch(a, b) ==
    /\ Len(a) = Len(b)
    /\ \A i \in 1..Len(a) :
         /\ IsFiniteNumber(a[i])
         /\ IsFiniteNumber(b[i])
         /\ 1000 * Abs(a[i].v - b[i].v) <= MathMax(1, Abs(b[i].v))

\* lines 312-329
canCombineOnAxis(source) ==
    LET onAxis == OnAxisOf(source)
    IN  /\ onAxis.present
        /\ Len(onAxis.Level) > 0
        /\ LET onAxisFreqs == buildLogFrequencies(onAxis.definition, Len(onAxis.Level))
               responses == source.Responses
           IN  /\ onAxisFreqs.isArray
               /\ Len(responses) > 0
               /\ responses[1] # NoResponse
               /\ Len(FrequenciesOf(responses[1])) = Len(onAxisFreqs.values)
               /\ frequenciesMatch(FrequenciesOf(responses[1]), onAxisFreqs.values)

\* hLevel + onAxisLevel[ freqIndex ], hLevel a finite number
JsAdd(level, other) ==
    CASE other.k = "num" -> Num(level.v + other.v)
      [] other.k = "inf" -> PosInfinity
      [] other.k = "ninf" -> NegInfinity
      [] other.k = "str" -> Str
      [] OTHER -> NaN

\* array[ index ], undefined outside the array
ElementAt(array, index) ==
    IF index >= 0 /\ index < Len(array) THEN array[index + 1] ELSE Undefined

\* mutant: a missing level becomes the placeholder of the level grid
SliceEntry_Placeholder(response, freqIndex, combine, onAxisLevel) ==
    LET level == ElementAt(response.Level, freqIndex)
    IN  IF combine /\ IsFiniteNumber(level)
        THEN JsAdd(level, ElementAt(onAxisLevel, freqIndex))
        ELSE IF level.k = "undef" THEN Num(MISSING_LEVEL) ELSE level

\* lines 342-347 and 359-364: the entry pushed for a located response
SliceEntry(response, freqIndex, combine, onAxisLevel) ==
    LET level == ElementAt(response.Level, freqIndex)
    IN  IF combine /\ IsFiniteNumber(level)
        THEN JsAdd(level, ElementAt(onAxisLevel, freqIndex))
        ELSE IF level.k = "undef" THEN Null ELSE level

NullSlices == [available |-> FALSE]

\* lines 303-388, given the grid.  hLookups and vLookups record the arguments
\* of the calls of getResponseWithSymmetry at lines 336 and 353.
SlicesOfGrid(source, grid, freqIndex) ==
    LET angles == buildPolarAngles(POLAR_STEP_DEG)
        combine == canCombineOnAxis(source)
        onAxisLevel == IF OnAxisOf(source).present THEN OnAxisOf(source).Level ELSE <<>>
        hMeridianDeg(angle) == IF angle >= 0 THEN 90 ELSE 270
        vMeridianDeg(angle) == IF angle >= 0 THEN 0 ELSE 180
    IN  [available |-> TRUE,
         angles |-> angles,
         labels |-> [i \in DOMAIN angles |-> formatPolarLabel(angles[i])],
         hLookups |-> [i \in DOMAIN angles |-> <<hMeridianDeg(angles[i]), Abs(angles[i])>>],
         vLookups |-> [i \in DOMAIN angles |-> <<vMeridianDeg(angles[i]), Abs(angles[i])>>],
         horizontal |->
           [levels |-> [i \in DOMAIN angles |->
                          SliceEntry(getResponseWithSymmetry_polar(
                                         source, grid, hMeridianDeg(angles[i]),
                                         Abs(angles[i])),
                                     freqIndex, combine, onAxisLevel)],
            meridianDeg |-> 90],
         vertical |->
           [levels |-> [i \in DOMAIN angles |->
                          SliceEntry(getResponseWithSymmetry_polar(
                                         source, grid, vMeridianDeg(angles[i]),
                                         Abs(angles[i])),
                                     freqIndex, combine, onAxisLevel)],
            meridianDeg |-> 0,
            maxParallel |-> grid.measuredParallelDeg,
            canMirrorParallel |-> grid.symmetry \in {2, 3}],
         meta |-> [usesOnAxis |-> combine,
                   symmetry |-> grid.symmetry,
                   frontHalfOnly |-> grid.frontHalfOnly,
                   measuredMeridianDeg |-> grid.measuredMeridianDeg,
                   measuredParallelDeg |-> grid.measuredParallelDeg,
                   stepDeg |-> POLAR_STEP_DEG]]

computePolarSlices(source, freqIndex) ==
    CHOOSE slices \in
      {IF grid.available THEN SlicesOfGrid(source, grid, freqIndex) ELSE NullSlices :
         grid \in {getBalloonGrid(source)}} : TRUE

(***************************************************************************)
(* Source objects the model starts from                                    *)
(***************************************************************************)
Ang(meridianStep, parallelStep, symmetry, frontHalfOnly) ==
    [present |-> TRUE, MeridianStep |-> meridianStep, ParallelStep |-> parallelStep,
     Symmetry |-> symmetry, FrontHalfOnly |-> frontHalfOnly]

\* the number of responses the pole-deduplicated layout of a grid stores: one
\* more than the largest index balloonResponseIndex gives a stored grid point
StoredResponseCount(grid) ==
    LET indices == {balloonResponseIndex(m, p, grid.meridianCount, grid.parallelCount,
                                         grid.frontHalfOnly) :
                       m \in 0..(grid.meridianCount - 1), p \in 0..(grid.parallelCount - 1)}
    IN  1 + CHOOSE i \in indices : \A j \in indices : j <= i

SpecialLevels == <<NaN, Num(-3), PosInfinity, Str, NegInfinity>>

\* the Level array of response number i (0-based) of a source
PatternLevel(pattern, i) ==
    CASE pattern = "uniform" -> <<Num(-20)>>
      [] pattern = "varied" ->
            IF i % 4 = 3 THEN <<Num(-30 - i)>>
            ELSE <<Num(-20 - i), SpecialLevels[(i % 5) + 1], Num(-40 + i)>>
      [] OTHER -> <<>>

MakeSource(ang, count, pattern) ==
    [ang |-> ang,
     Responses |-> [i \in 1..count |-> [id |-> i - 1, Level |-> PatternLevel(pattern, i - 1)]]]

ValidSteps == {40, 50, 90}
InvalidSteps == {Undefined, NaN, Num(0), Num(-30)}
SymmetryCodes == {SYMMETRY_NONE, SYMMETRY_VERTICAL, SYMMETRY_HORIZONTAL,
                  SYMMETRY_QUARTER, SYMMETRY_AXIAL}

ValidAngs == {Ang(Num(ms), Num(ps), Num(sy), fh) :
                 ms \in ValidSteps, ps \in ValidSteps, sy \in SymmetryCodes, fh \in BOOLEAN}
             \cup {Ang(Num(30), Num(30), Undefined, FALSE)}

InvalidAngs == {NoAng}
               \cup {Ang(ms, Num(30), Num(sy), FALSE) : ms \in InvalidSteps, sy \in {0, 3}}
               \cup {Ang(Num(30), ps, Num(sy), TRUE) : ps \in InvalidSteps, sy \in {1, 4}}
               \cup {Ang(Num(-45), Num(-45), Num(2), FALSE)}

\* complete for every grid; for the grids with equal steps also one response
\* short, two responses too many, and empty
ResponseCounts(ang) ==
    LET grid == getBalloonGrid([ang |-> ang, Responses |-> <<>>])
    IN  IF grid.available
        THEN {MathMax(0, StoredResponseCount(grid))}
             \cup (IF grid.meridianStep = grid.parallelStep
                   THEN {0, MathMax(0, StoredResponseCount(grid) - 1),
                         MathMax(0, StoredResponseCount(grid)) + 2}
                   ELSE {})
        ELSE {0, 3}

\* the complete 10-degree source: one response per stored grid point (poles
\* stored once), or one per point of the 36 x 19 grid, each with Level = [-20]
TenDegreeAng == Ang(Num(10), Num(10), Num(SYMMETRY_NONE), FALSE)
TenDegreeGrid == getBalloonGrid([ang |-> TenDegreeAng, Responses |-> <<>>])
TenDegreeSource == MakeSource(TenDegreeAng, StoredResponseCount(TenDegreeGrid), "uniform")
TenDegreeSourcePerPoint ==
    MakeSource(TenDegreeAng, TenDegreeGrid.meridianCount * TenDegreeGrid.parallelCount,
               "uniform")

\* an absent source (null or undefined): source?.Definition is undefined and
\* source?.Responses || [] is empty
NullSource == [absent |-> TRUE, ang |-> NoAng, Responses |-> <<>>]
IsAbsent(source) == "absent" \in DOMAIN source

GridSources ==
    UNION {{MakeSource(ang, n, "varied") : n \in ResponseCounts(ang)} :
                   ang \in ValidAngs \cup InvalidAngs}
    \cup {TenDegreeSource, TenDegreeSourcePerPoint, NullSource}

\* the complete 10-degree source with one response missing: taken out of the
\* array (the later responses move down one index), or its slot left empty.
\* k is the 0-based index of the response.
RemoveAt(responses, k) ==
    [i \in 1..(Len(responses) - 1) |-> IF i <= k THEN responses[i] ELSE responses[i + 1]]
EmptyAt(responses, k) == [responses EXCEPT ![k + 1] = NoResponse]
RemovedIndices == {0, 7, 18, 19, 300} \cup {Len(TenDegreeSource.Responses) - 1}
TenDegreeSpliced(k) == [TenDegreeSource EXCEPT !.Responses = RemoveAt(@, k)]
TenDegreeHole(k) == [TenDegreeSource EXCEPT !.Responses = EmptyAt(@, k)]
MissingSources == {TenDegreeSpliced(k) : k \in RemovedIndices}
                  \cup {TenDegreeHole(k) : k \in RemovedIndices}

\* sources with frequency axes and an on-axis spectrum, for computePolarSlices
LogDefinition(bandsPerOctave, startFreq, pointCount) ==
    [present |-> TRUE, bands_per_octave |-> bandsPerOctave, start_freq |-> startFreq,
     point_count |-> pointCount]
NoDefinition == [present |-> FALSE, bands_per_octave |-> 0, start_freq |-> 0,
                 point_count |-> 0]
OnAxis(definition, level) == [present |-> TRUE, definition |-> definition, Level |-> level]

PolarFrequencies ==
    {<<Num(100), Num(200), Num(400)>>,
     <<Num(100), Num(200)>>,
     <<Num(100), Num(200), Num(500)>>,
     <<Num(100), NaN, Num(400)>>,
     <<Num(10000), Num(20010), Num(40000)>>,
     <<Num(10000), Num(20030), Num(40000)>>,
     <<>>}

PolarOnAxes ==
    {NoOnAxis,
     OnAxis(LogDefinition(1, 100, 3), <<Num(3), Num(4), Num(5)>>),
     OnAxis(LogDefinition(1, 100, 3), <<Num(3), Num(4)>>),
     OnAxis(LogDefinition(1, 100, 3), <<Num(3), NaN, Num(5)>>),
     OnAxis(LogDefinition(1, 100, 3), <<>>),
     OnAxis(LogDefinition(1, 10000, 0), <<Num(1), Num(2), Num(6)>>),
     OnAxis(LogDefinition(0, 100, 3), <<Num(3), Num(4), Num(5)>>),
     OnAxis(NoDefinition, <<Num(3), Num(4), Num(5)>>)}

PolarAngs == {Ang(Num(30), Num(30), Num(SYMMETRY_NONE), FALSE),
              Ang(Num(90), Num(30), Num(SYMMETRY_QUARTER), TRUE)}

MakePolarSource(ang, count, frequencies, onAxis) ==
    [ang |-> ang,
     Responses |-> [i \in 1..count |->
                      [id |-> i - 1, Level |-> PatternLevel("varied", i - 1),
                       Frequencies |-> frequencies]],
     OnAxisSpectrum |-> onAxis]

PolarSources ==
    {MakePolarSource(ang, StoredResponseCount(getBalloonGrid([ang |-> ang, Responses |-> <<>>])),
                     frequencies, onAxis) :
        ang \in PolarAngs, frequencies \in PolarFrequencies, onAxis \in PolarOnAxes}
    \cup {MakePolarSource(NoAng, 2, <<Num(100), Num(200), Num(400)>>,
                          OnAxis(LogDefinition(1, 100, 3), <<Num(3), Num(4), Num(5)>>))}

\* angular-resolution metadata of every shape, for getBalloonGrid alone
StepInputs == {Undefined, NaN}
              \cup {Num(v) : v \in {-30, -5, 0, 1, 5, 7, 10, 16, 30, 45, 48, 90, 100,
                                     180, 200, 240, 360, 400, 720, 800}}
SymmetryInputs == {Undefined} \cup {Num(sy) : sy \in 0..5}
MetadataSources ==
    {MakeSource(NoAng, 0, "varied")}
    \cup {MakeSource(Ang(ms, ps, sy, fh), 2, "varied") :
             ms \in StepInputs, ps \in StepInputs, sy \in SymmetryInputs, fh \in BOOLEAN}

\* small sources for the cache: one with a grid of one meridian and two
\* parallels, one without angular resolution and without a finite level
SmallAng == Ang(Num(360), Num(180), Num(SYMMETRY_NONE), FALSE)
CacheSources ==
    {[ang |-> SmallAng,
      Responses |-> <<[id |-> 0, Level |-> <<Num(-12)>>],
                      [id |-> 1, Level |-> <<NaN, Num(-20)>>]>>],
     [ang |-> NoAng,
      Responses |-> <<[id |-> 0, Level |-> <<PosInfinity>>]>>]}

\* sources for the locator: every symmetry code, with and without
\* frontHalfOnly, with parallel steps that measure the whole half circle (30),
\* stop short of 180 (80: parallels 0, 80, 160) and stop short of 180 with one
\* meridian row to mirror onto (130: parallels 0, 130)
LocateSteps == {<<30, 30>>, <<45, 80>>, <<90, 130>>}
LocateAngs ==
    {Ang(Num(st[1]), Num(st[2]), Num(sy), fh) :
       st \in LocateSteps, sy \in SymmetryCodes, fh \in BOOLEAN}
\* complete sources that are not front-half-only and whose steps divide 90
DividingSteps == {15, 30, 45, 90}
CompleteAngs ==
    {Ang(Num(ms), Num(ps), Num(sy), FALSE) :
       ms \in DividingSteps, ps \in DividingSteps, sy \in SymmetryCodes}
CompleteCount(ang) == StoredResponseCount(getBalloonGrid([ang |-> ang, Responses |-> <<>>]))
LocateSources ==
    {MakeSource(ang, CompleteCount(ang), "varied") : ang \in LocateAngs \cup CompleteAngs}
    \cup {MakeSource(ang, CompleteCount(ang) + 2, "varied") :
            ang \in {a \in CompleteAngs : a.MeridianStep = a.ParallelStep}}
LocateAzimuths ==
    {15 * i : i \in -25..49} \cup {-1, 44, 89, 91, 179, 181, 260, 269, 271, 359}
LocateParallels == {-10, 0, 30, 45, 60, 85, 90, 91, 100, 130, 135, 140, 170, 180, 181}

\* sources for the calls made in any order.  The first source is a small grid
\* or a source without angular resolution, every other source is another small
\* grid; the largest level of each grid sits at a frequency index of its own
FrameAng == Ang(Num(180), Num(90), Num(SYMMETRY_NONE), FALSE)
OtherSource ==
    [ang |-> SmallAng,
     Responses |-> <<[id |-> 0, Level |-> <<Num(-12), Num(-7), Num(-31)>>],
                     [id |-> 1, Level |-> <<NaN, Num(-20), Num(-4)>>]>>]
FrameSources ==
    {[ang |-> FrameAng,
      Responses |-> <<[id |-> 0, Level |-> <<Num(5), Num(-9)>>],
                      [id |-> 1, Level |-> <<Num(-2), Num(-9), Num(-15)>>],
                      [id |-> 2, Level |-> <<Num(-6), PosInfinity>>],
                      [id |-> 3, Level |-> <<Num(-8), Num(-10), Num(-11)>>]>>],
     [ang |-> NoAng,
      Responses |-> <<[id |-> 0, Level |-> <<Num(-1)>>]>>]}
FrameAzimuths == {270}
FrameParallels == {90, 200}

(***************************************************************************)
(* State:                                                                  *)
(*   sources         the source objects, by identity                       *)
(*   globalMaxCache  the WeakMap of balloon-utils.ts line 16               *)
(*   callLog         per source, the latest cache call made for it and the *)
(*                   value computeGlobalMaxLevel last returned for it      *)
(*   mutations       number of changes made to the sources' data so far    *)
(*   request         the call a caller of the pure functions makes, with   *)
(*                   its arguments                                         *)
(*   last            the latest call and what it returned                  *)
(***************************************************************************)
SourceIds == DOMAIN sources

(***************************************************************************)
(* Inputs of the calls                                                     *)
(***************************************************************************)
FrequencyIndices == -1..MaxFrequencyIndex
DbRanges == {40, 0, -10}
Scales == {1, 2}
\* every frequency index at the default range and scale, and every range and
\* scale at frequency index 0
DEFAULT_DB_RANGE == 40
BuildOptions ==
    {[frequencyIndex |-> f, dbRange |-> DEFAULT_DB_RANGE, scale |-> 1] : f \in FrequencyIndices}
    \cup {[frequencyIndex |-> 0, dbRange |-> d, scale |-> sc] : d \in DbRanges, sc \in Scales}
\* every frequency index at the default range, and one more range
FrameBuildOptions ==
    {[frequencyIndex |-> f, dbRange |-> DEFAULT_DB_RANGE, scale |-> 1] : f \in FrequencyIndices}
    \cup {[frequencyIndex |-> MaxFrequencyIndex, dbRange |-> 10, scale |-> 1]}
CacheBuildOptions ==
    {[frequencyIndex |-> 0, dbRange |-> DEFAULT_DB_RANGE, scale |-> 1]}
ExtraAzimuths == {-400, -1, 44, 260, 360, 725}
ExtraParallels == {-10, 0, 91, 180, 181}
\* the entries a caller changes, <<response, frequency>> (1-based), and the
\* values it writes: one above every level of the cache sources, one not finite
MutationSlots == {<<1, 1>>}
MutationValues == {Num(-5), NaN}

AzimuthInputs(grid) ==
    ExtraAzimuths \cup
    (IF grid.available
     THEN {m * grid.meridianStep : m \in 0..(grid.fullMeridianCount - 1)}
     ELSE {})

ParallelInputs(grid) ==
    ExtraParallels \cup
    (IF grid.available
     THEN {p * grid.parallelStep : p \in 0..(grid.fullParallelCount - 1)}
     ELSE {})

NoOptions == [frequencyIndex |-> 0, dbRange |-> 0, scale |-> 0]

Request(op, azimuthDeg, parallelDeg, frequencyIndex, options) ==
    [op |-> op, azimuthDeg |-> azimuthDeg, parallelDeg |-> parallelDeg,
     frequencyIndex |-> frequencyIndex, options |-> options]

NoRequest == Request("none", 0, 0, 0, NoOptions)

(***************************************************************************)
(* WASM loader (src/unnamed/part_010) and GLLProvider (gll-context.js)     *)
(***************************************************************************)
\* lines 11-14: the module state; rejection is the reason loadPromise is
\* rejected with, stage the await the initialisation stands at, starts the
\* number of times the initialisation sequence was begun
NoLoader ==
    [wasmInstance |-> "null", wasmReady |-> FALSE, wasmError |-> "null",
     loadPromise |-> "null", rejection |-> "null", stage |-> "none", starts |-> 0]

\* lines 145-148: catch ( error ) { wasmError = error; throw error; }
FailLoad(l, error) ==
    [l EXCEPT !.wasmError = error, !.rejection = error,
              !.loadPromise = "rejected", !.stage = "failed"]

\* lines 105-115: the initialisation runs up to its first await
StartLoad(l, supported) ==
    IF ~supported
    THEN FailLoad([l EXCEPT !.starts = @ + 1], "WebAssembly is not supported")
    ELSE [l EXCEPT !.starts = @ + 1, !.loadPromise = "pending", !.stage = "loadWasmExec"]

\* mutant: the promise of a load in progress is not reused
initWasm_NoSingleton(l, supported) ==
    IF l.wasmReady THEN [loader |-> l, awaits |-> "resolved"]
    ELSE IF l.wasmError # "null" THEN [loader |-> l, awaits |-> "rejected"]
    ELSE [loader |-> StartLoad(l, supported), awaits |-> "loadPromise"]

\* lines 89-152: the loader after the call and the promise the caller gets
initWasm(l, supported) ==
    IF l.loadPromise # "null" THEN [loader |-> l, awaits |-> "loadPromise"]
    ELSE IF l.wasmReady THEN [loader |-> l, awaits |-> "resolved"]
    ELSE IF l.wasmError # "null" THEN [loader |-> l, awaits |-> "rejected"]
    ELSE [loader |-> StartLoad(l, supported), awaits |-> "loadPromise"]

\* the state of the promise a caller awaits
PromiseState(l, awaits) ==
    CASE awaits = "loadPromise" -> l.loadPromise
      [] awaits = "resolved" -> "fulfilled"
      [] awaits = "rejected" -> "rejected"
      [] OTHER -> "pending"

\* gll-context.js 55-60: the state of the provider
NoProvider == [data |-> "null", isLoading |-> FALSE, error |-> "null", wasmReady |-> FALSE]

\* an asynchronous call: the function called, the await it stands at, the
\* promise it awaits, and how it ended
Caller(kind, pc, awaits, result, error) ==
    [kind |-> kind, pc |-> pc, awaits |-> awaits, result |-> result, error |-> error]

InitBrowser ==
    /\ loader = NoLoader
    /\ provider = NoProvider
    /\ callers = [c \in 1..NumCallers |-> Caller("none", "idle", "none", "none", "null")]

InitCommon ==
    /\ globalMaxCache = [s \in SourceIds |-> NoEntry]
    /\ callLog = [s \in SourceIds |-> [op |-> "none", value |-> 0]]
    /\ mutations = 0
    /\ last = [op |-> "init"]
    /\ InitBrowser

Init ==
    /\ sources \in [{1} -> GridSources]
    /\ LET grid == getBalloonGrid(sources[1])
       IN  \/ request = Request("getBalloonGrid", 0, 0, 0, NoOptions)
           \/ \E azimuthDeg \in AzimuthInputs(grid), parallelDeg \in ParallelInputs(grid) :
                request = Request("getResponseWithSymmetry", azimuthDeg, parallelDeg,
                                  0, NoOptions)
           \/ \E frequencyIndex \in FrequencyIndices :
                request = Request("buildFullSphereLevels", 0, 0, frequencyIndex, NoOptions)
           \/ \E options \in BuildOptions :
                request = Request("buildBalloonGeometryData", 0, 0, 0, options)
           \/ request = Request("computeGlobalMaxLevel", 0, 0, 0, NoOptions)
           \/ \E frequencyIndex \in FrequencyIndices :
                request = Request("computePolarSlices", 0, 0, frequencyIndex, NoOptions)
    /\ InitCommon

InitMissing ==
    /\ sources \in [{1} -> MissingSources]
    /\ \/ request = Request("getBalloonGrid", 0, 0, 0, NoOptions)
       \/ \E azimuthDeg \in {0, 10, 350}, parallelDeg \in {0, 70, 170, 180} :
            request = Request("getResponseWithSymmetry", azimuthDeg, parallelDeg,
                              0, NoOptions)
       \/ \E frequencyIndex \in FrequencyIndices :
            request = Request("buildFullSphereLevels", 0, 0, frequencyIndex, NoOptions)
       \/ \E scale \in Scales :
            request = Request("buildBalloonGeometryData", 0, 0, 0,
                              [frequencyIndex |-> 0, dbRange |-> DEFAULT_DB_RANGE,
                               scale |-> scale])
       \/ request = Request("computeGlobalMaxLevel", 0, 0, 0, NoOptions)
       \/ request = Request("computePolarSlices", 0, 0, 0, NoOptions)
    /\ InitCommon

\* the sources with frequency axes too; the lookups of computePolarSlices are
\* made through it, so the direct lookups are few
InitPolar ==
    /\ sources \in [{1} -> PolarSources \cup GridSources]
    /\ \/ \E frequencyIndex \in FrequencyIndices :
            request = Request("computePolarSlices", 0, 0, frequencyIndex, NoOptions)
       \/ request = Request("getBalloonGrid", 0, 0, 0, NoOptions)
       \/ request = Request("getResponseWithSymmetry", 90, 30, 0, NoOptions)
       \/ request = Request("buildFullSphereLevels", 0, 0, 1, NoOptions)
       \/ request = Request("buildBalloonGeometryData", 0, 0, 0,
                            [frequencyIndex |-> 1, dbRange |-> DEFAULT_DB_RANGE,
                             scale |-> 1])
       \/ request = Request("computeGlobalMaxLevel", 0, 0, 0, NoOptions)
    /\ InitCommon

\* the locator at azimuths and parallels all round and beyond the circle for
\* the sources of LocateAngs, and at the points of the full grid for all
InitLocate ==
    /\ sources \in [{1} -> LocateSources]
    /\ LET grid == getBalloonGrid(sources[1])
       IN  \/ /\ sources[1].ang \in LocateAngs
              /\ \E azimuthDeg \in LocateAzimuths, parallelDeg \in LocateParallels :
                   request = Request("getResponseWithSymmetry", azimuthDeg, parallelDeg,
                                     0, NoOptions)
           \/ \E m \in 0..(grid.fullMeridianCount - 1), p \in 0..(grid.fullParallelCount - 1) :
                request = Request("getResponseWithSymmetry", m * grid.meridianStep,
                                  p * grid.parallelStep, 0, NoOptions)
           \/ \E frequencyIndex \in FrequencyIndices :
                request = Request("buildFullSphereLevels", 0, 0, frequencyIndex, NoOptions)
           \/ request = Request("getBalloonGrid", 0, 0, 0, NoOptions)
           \/ request = Request("buildBalloonGeometryData", 0, 0, 0,
                                [frequencyIndex |-> 0, dbRange |-> DEFAULT_DB_RANGE,
                                 scale |-> 1])
           \/ request = Request("computeGlobalMaxLevel", 0, 0, 0, NoOptions)
           \/ request = Request("computePolarSlices", 0, 0, 0, NoOptions)
    /\ InitCommon

\* no call is fixed in advance: the caller makes any call on any source
InitFrame ==
    /\ \E first \in FrameSources :
         sources = [s \in 1..NumSources |-> IF s = 1 THEN first ELSE OtherSource]
    /\ request = NoRequest
    /\ InitCommon

\* the index function alone: a stored grid of any size and one of its points
IndexRequest(meridianIdx, parallelIdx, meridianCount, parallelCount, frontHalfOnly) ==
    [op |-> "balloonResponseIndex", meridianIdx |-> meridianIdx,
     parallelIdx |-> parallelIdx, meridianCount |-> meridianCount,
     parallelCount |-> parallelCount, frontHalfOnly |-> frontHalfOnly]

InitIndex ==
    /\ sources = [s \in {1} |-> NullSource]
    /\ \E meridianCount \in 1..MaxMeridianCount, parallelCount \in 2..MaxParallelCount,
          frontHalfOnly \in BOOLEAN :
         \E meridianIdx \in 0..(meridianCount - 1), parallelIdx \in 0..(parallelCount - 1) :
           request = IndexRequest(meridianIdx, parallelIdx, meridianCount,
                                  parallelCount, frontHalfOnly)
    /\ InitCommon

\* the page with the loader and the provider alone
InitPage ==
    /\ sources = [s \in {1} |-> NullSource]
    /\ request = NoRequest
    /\ InitCommon

InitGrid ==
    /\ sources \in [{1} -> MetadataSources]
    /\ request = Request("getBalloonGrid", 0, 0, 0, NoOptions)
    /\ InitCommon

InitCache ==
    /\ sources \in [1..NumSources -> CacheSources]
    /\ request = NoRequest
    /\ InitCommon

(***************************************************************************)
(* The calls                                                               *)
(***************************************************************************)
\* the private function of balloon-utils.ts and its copy in polar-utils.js
BalloonResponseIndex(meridianIdx, parallelIdx, meridianCount, parallelCount, frontHalfOnly) ==
    /\ last' = [op |-> "balloonResponseIndex", src |-> 1,
                meridianIdx |-> meridianIdx, parallelIdx |-> parallelIdx,
                meridianCount |-> meridianCount, parallelCount |-> parallelCount,
                frontHalfOnly |-> frontHalfOnly,
                result |-> balloonResponseIndex(meridianIdx, parallelIdx, meridianCount,
                                                parallelCount, frontHalfOnly),
                resultPolar |-> balloonResponseIndex_polar(meridianIdx, parallelIdx,
                                                           meridianCount, parallelCount,
                                                           frontHalfOnly)]
    /\ UNCHANGED <<browserVars, sources, globalMaxCache, callLog, mutations, request>>

GetBalloonGrid(s) ==
    /\ last' = [op |-> "getBalloonGrid", src |-> s, result |-> getBalloonGrid(sources[s])]
    /\ UNCHANGED <<browserVars, sources, globalMaxCache, callLog, mutations, request>>

\* the call of balloon-utils.ts and of the copy in polar-utils.js; folded tells
\* whether the call got past line 121, lookupAzimuth and lookupParallel are the
\* locals of those names after line 180 (lookupParallel -1: rejected)
GetResponseWithSymmetry(s, azimuthDeg, parallelDeg) ==
    \E grid \in {getBalloonGrid(sources[s])} :
      \E folded \in {Len(sources[s].Responses) # 0 /\ grid.available} :
        /\ last' = [op |-> "getResponseWithSymmetry", src |-> s,
                    azimuthDeg |-> azimuthDeg, parallelDeg |-> parallelDeg,
                    folded |-> folded,
                    lookupAzimuth |-> IF folded THEN FoldAzimuth(grid.symmetry, azimuthDeg)
                                      ELSE -1,
                    lookupParallel |-> IF folded THEN FoldParallel(grid, parallelDeg)
                                       ELSE -1,
                    result |-> getResponseWithSymmetry(sources[s], grid,
                                                       azimuthDeg, parallelDeg),
                    resultPolar |-> getResponseWithSymmetry_polar(sources[s], grid,
                                                       azimuthDeg, parallelDeg)]
        /\ UNCHANGED <<browserVars, sources, globalMaxCache, callLog, mutations, request>>

\* with no grid, line 278 destructures null and throws a TypeError
BuildFullSphereLevels(s, frequencyIndex) ==
    \E grid \in {getBalloonGrid(sources[s])} :
        /\ last' = [op |-> "buildFullSphereLevels", src |-> s,
                    frequencyIndex |-> frequencyIndex,
                    threw |-> ~grid.available,
                    result |-> IF grid.available
                               THEN buildFullSphereLevels(sources[s], grid, frequencyIndex)
                               ELSE <<>>]
        /\ UNCHANGED <<browserVars, sources, globalMaxCache, callLog, mutations, request>>

\* for an absent source has( source ) is false, the scan finds nothing, and
\* globalMaxCache.set( source, 0 ) at line 248 throws a TypeError: null and
\* undefined are not WeakMap keys
ComputeGlobalMaxLevel(s) ==
    LET result == GlobalMaxOf(globalMaxCache, s, sources[s])
        threw == IsAbsent(sources[s])
    IN  /\ globalMaxCache' = IF threw THEN globalMaxCache
                             ELSE CacheAfterCompute(globalMaxCache, s, sources[s])
        /\ callLog' = IF threw THEN callLog
                      ELSE [callLog EXCEPT ![s] = [op |-> "compute", value |-> result]]
        /\ last' = [op |-> "computeGlobalMaxLevel", src |-> s,
                    prev |-> callLog[s],
                    scanned |-> ~globalMaxCache[s].has,
                    threw |-> threw,
                    result |-> result]
        /\ UNCHANGED <<browserVars, sources, mutations, request>>

\* mutant: the entry is not deleted
ClearGlobalMaxCache_NoDelete(s) ==
    /\ callLog' = [callLog EXCEPT ![s].op = "clear"]
    /\ last' = [op |-> "clearGlobalMaxCache", src |-> s]
    /\ UNCHANGED <<browserVars, sources, globalMaxCache, mutations, request>>

\* mutant: the whole cache is emptied
ClearGlobalMaxCache_All(s) ==
    /\ globalMaxCache' = [t \in DOMAIN globalMaxCache |-> NoEntry]
    /\ callLog' = [callLog EXCEPT ![s].op = "clear"]
    /\ last' = [op |-> "clearGlobalMaxCache", src |-> s]
    /\ UNCHANGED <<browserVars, sources, mutations, request>>

ClearGlobalMaxCache(s) ==
    /\ globalMaxCache' = [globalMaxCache EXCEPT ![s] = NoEntry]
    /\ callLog' = [callLog EXCEPT ![s].op = "clear"]
    /\ last' = [op |-> "clearGlobalMaxCache", src |-> s]
    /\ UNCHANGED <<browserVars, sources, mutations, request>>

\* lines 387-390 return before the cache is touched; line 399 calls
\* computeGlobalMaxLevel
BuildBalloonGeometryData(s, options) ==
    LET grid == getBalloonGrid(sources[s])
        globalMax == GlobalMaxOf(globalMaxCache, s, sources[s])
    IN  /\ globalMaxCache' = IF grid.available
                             THEN CacheAfterCompute(globalMaxCache, s, sources[s])
                             ELSE globalMaxCache
        /\ callLog' = IF grid.available
                      THEN [callLog EXCEPT ![s] = [op |-> "compute", value |-> globalMax]]
                      ELSE callLog
        /\ last' = [op |-> "buildBalloonGeometryData", src |-> s, options |-> options,
                    prev |-> callLog[s],
                    scanned |-> grid.available /\ ~globalMaxCache[s].has,
                    result |-> buildBalloonGeometryData(sources[s], options, globalMax)]
        /\ UNCHANGED <<browserVars, sources, mutations, request>>

ComputePolarSlices(s, freqIndex) ==
    /\ last' = [op |-> "computePolarSlices", src |-> s, frequencyIndex |-> freqIndex,
                result |-> computePolarSlices(sources[s], freqIndex)]
    /\ UNCHANGED <<browserVars, sources, globalMaxCache, callLog, mutations, request>>

\* the caller changes one level of a source in place
MutateLevel(s) ==
    /\ mutations < MaxMutations
    /\ \E slot \in MutationSlots, v \in MutationValues :
         LET r == slot[1]
             f == slot[2]
         IN  /\ r \in DOMAIN sources[s].Responses
             /\ f \in DOMAIN sources[s].Responses[r].Level
             /\ sources[s].Responses[r].Level[f] # v
             /\ sources' = [sources EXCEPT ![s].Responses[r].Level[f] = v]
    /\ mutations' = mutations + 1
    /\ last' = [op |-> "mutate", src |-> s]
    /\ UNCHANGED <<browserVars, globalMaxCache, callLog, request>>

\* a caller of the pure functions makes the call it was set to make
(***************************************************************************)
(* The asynchronous calls of the loader and of the provider                *)
(***************************************************************************)
\* initWasm() called (part_010 89-152)
CallInitWasm(c) ==
    /\ callers[c].pc \in {"idle", "settled"}
    /\ \E supported \in BOOLEAN :
         \E call \in {initWasm(loader, supported)} :
           /\ call.loader.starts <= MaxStarts
           /\ loader' = call.loader
           /\ callers' = [callers EXCEPT ![c] =
                            Caller("initWasm", "awaitInit", call.awaits, "none", "null")]
    /\ UNCHANGED <<coreVars, provider>>

\* window.parseGLL and the test of result.success (part_010 184-196)
Parse(kind, ok) ==
    IF ok THEN Caller(kind, "settled", "none", "resolved", "null")
    ELSE Caller(kind, "settled", "none", "rejected", "Failed to parse GLL file")

\* parseGLL( data ) called (part_010 178-197)
CallParseGLL(c) ==
    /\ callers[c].pc \in {"idle", "settled"}
    /\ IF loader.wasmReady
       THEN /\ \E ok \in BOOLEAN : callers' = [callers EXCEPT ![c] = Parse("parseGLL", ok)]
            /\ UNCHANGED loader
       ELSE \E supported \in BOOLEAN :
              \E call \in {initWasm(loader, supported)} :
                /\ call.loader.starts <= MaxStarts
                /\ loader' = call.loader
                /\ callers' = [callers EXCEPT ![c] =
                                 Caller("parseGLL", "awaitInit", call.awaits, "none", "null")]
    /\ UNCHANGED <<coreVars, provider>>

\* the script of the Go runtime is loaded or fails to load (part_010 66-81,
\* 115-121)
WasmExecLoaded ==
    /\ loader.stage = "loadWasmExec"
    /\ \E ok \in BOOLEAN :
         loader' = IF ok THEN [loader EXCEPT !.stage = "fetch"]
                   ELSE FailLoad(loader, "Failed to load wasm_exec.js")
    /\ UNCHANGED <<coreVars, provider, callers>>

\* the fetch of the WASM file ends (part_010 121-131)
WasmFetched ==
    /\ loader.stage = "fetch"
    /\ \E ok \in BOOLEAN :
         loader' = IF ok THEN [loader EXCEPT !.stage = "instantiate"]
                   ELSE FailLoad(loader, "Failed to fetch WASM")
    /\ UNCHANGED <<coreVars, provider, callers>>

\* instantiateStreaming ends; the instance is kept, the Go program is run and
\* window.parseGLL is looked for (part_010 128-148)
WasmInstantiated ==
    /\ loader.stage = "instantiate"
    /\ \E outcome \in {"ready", "instantiate failed",
                       "WASM module did not export parseGLL function"} :
         loader' =
           CASE outcome = "ready" ->
                  [loader EXCEPT !.wasmInstance = "instance", !.wasmReady = TRUE,
                                 !.loadPromise = "fulfilled", !.stage = "ready"]
             [] outcome = "instantiate failed" -> FailLoad(loader, outcome)
             [] OTHER -> FailLoad([loader EXCEPT !.wasmInstance = "instance"], outcome)
    /\ UNCHANGED <<coreVars, provider, callers>>

\* loadFile / loadFromUrl called (gll-context.js 88-93, 122-127), with the
\* synchronous part of ensureWasmReady (65-72)
CallLoad(c, kind) ==
    /\ callers[c].pc \in {"idle", "settled"}
    /\ IF loader.wasmReady
       THEN /\ provider' = [provider EXCEPT !.isLoading = TRUE, !.error = "null",
                                            !.wasmReady = TRUE]
            /\ callers' = [callers EXCEPT ![c] =
                             Caller(kind, "ensureTick", "none", "none", "null")]
            /\ UNCHANGED loader
       ELSE \E supported \in BOOLEAN :
              \E call \in {initWasm(loader, supported)} :
                /\ call.loader.starts <= MaxStarts
                /\ loader' = call.loader
                /\ provider' = [provider EXCEPT !.isLoading = TRUE, !.error = "null"]
                /\ callers' = [callers EXCEPT ![c] =
                                 Caller(kind, "awaitInit", call.awaits, "none", "null")]
    /\ UNCHANGED coreVars

LoadFile(c) == CallLoad(c, "loadFile")
LoadFromUrl(c) == CallLoad(c, "loadFromUrl")

\* ensureWasmReady returned true at once: the load goes on to read the file
\* (gll-context.js 98) or to fetch it (132, part_010 221)
EnsureTick(c) ==
    /\ callers[c].pc = "ensureTick"
    /\ callers' = [callers EXCEPT ![c].pc = "reading"]
    /\ UNCHANGED <<coreVars, loader, provider>>

\* the promise of initWasm() is settled and the caller goes on: initWasm's
\* caller has its outcome; parseGLL parses or rejects (part_010 180-196); a
\* load sets wasmReady and reads on, or sets the error, throws 'WASM failed to
\* initialize' and ends in its catch block (gll-context.js 71-78, 93-96,
\* 107-111)
SettleInit(c) ==
    /\ callers[c].pc = "awaitInit"
    /\ PromiseState(loader, callers[c].awaits) # "pending"
    /\ LET kind == callers[c].kind
           fulfilled == PromiseState(loader, callers[c].awaits) = "fulfilled"
           reason == IF callers[c].awaits = "loadPromise" THEN loader.rejection
                     ELSE loader.wasmError
       IN  CASE kind = "initWasm" ->
                  /\ callers' = [callers EXCEPT ![c] =
                                   IF fulfilled
                                   THEN Caller(kind, "settled", "none", "resolved", "null")
                                   ELSE Caller(kind, "settled", "none", "rejected", reason)]
                  /\ UNCHANGED provider
             [] kind = "parseGLL" ->
                  /\ IF fulfilled
                     THEN \E ok \in BOOLEAN : callers' = [callers EXCEPT ![c] = Parse(kind, ok)]
                     ELSE callers' = [callers EXCEPT ![c] =
                                        Caller(kind, "settled", "none", "rejected", reason)]
                  /\ UNCHANGED provider
             [] OTHER ->
                  IF fulfilled
                  THEN /\ provider' = [provider EXCEPT !.wasmReady = TRUE]
                       /\ callers' = [callers EXCEPT ![c] =
                                        Caller(kind, "reading", "none", "none", "null")]
                  ELSE /\ provider' = [provider EXCEPT !.error = "WASM failed to initialize",
                                                       !.isLoading = FALSE]
                       /\ callers' = [callers EXCEPT ![c] =
                                        Caller(kind, "settled", "none", "null",
                                               "WASM failed to initialize")]
    /\ UNCHANGED <<coreVars, loader>>

\* file.arrayBuffer() or the fetch of the URL ends (gll-context.js 98, part_010
\* 221-228): parseGLL is called, or the catch block runs (107-111, 140-144)
ReadCompleted(c) ==
    /\ callers[c].pc = "reading"
    /\ \E ok \in BOOLEAN :
         IF ok
         THEN /\ callers' = [callers EXCEPT ![c].pc = "parsing"]
              /\ UNCHANGED provider
         ELSE /\ provider' = [provider EXCEPT !.error = "Failed to read GLL file",
                                              !.isLoading = FALSE]
              /\ callers' = [callers EXCEPT ![c] =
                               Caller(callers[c].kind, "settled", "none", "null",
                                      "Failed to read GLL file")]
    /\ UNCHANGED <<coreVars, loader>>

\* the promise of parseGLL is settled (gll-context.js 99-111, 132-144)
ParseCompleted(c) ==
    /\ callers[c].pc = "parsing"
    /\ \E ok \in BOOLEAN :
         IF ok
         THEN /\ provider' = [provider EXCEPT !.data = "parsedData", !.isLoading = FALSE]
              /\ callers' = [callers EXCEPT ![c] =
                               Caller(callers[c].kind, "settled", "none", "parsedData",
                                      "null")]
         ELSE /\ provider' = [provider EXCEPT !.error = "Failed to parse GLL file",
                                              !.isLoading = FALSE]
              /\ callers' = [callers EXCEPT ![c] =
                               Caller(callers[c].kind, "settled", "none", "null",
                                      "Failed to parse GLL file")]
    /\ UNCHANGED <<coreVars, loader>>

\* gll-context.js 150-155
ClearData ==
    /\ provider' = [provider EXCEPT !.data = "null", !.error = "null"]
    /\ UNCHANGED <<coreVars, loader, callers>>

\* callers of the loader
NextLoader ==
    \/ \E c \in DOMAIN callers : CallInitWasm(c) \/ CallParseGLL(c) \/ SettleInit(c)
    \/ WasmExecLoaded
    \/ WasmFetched
    \/ WasmInstantiated

\* users of the provider
NextProvider ==
    \/ \E c \in DOMAIN callers :
         \/ LoadFile(c)
         \/ LoadFromUrl(c)
         \/ EnsureTick(c)
         \/ SettleInit(c)
         \/ ReadCompleted(c)
         \/ ParseCompleted(c)
    \/ ClearData
    \/ WasmExecLoaded
    \/ WasmFetched
    \/ WasmInstantiated

Next ==
    \E s \in SourceIds :
      \/ request.op = "getBalloonGrid" /\ GetBalloonGrid(s)
      \/ /\ request.op = "getResponseWithSymmetry"
         /\ GetResponseWithSymmetry(s, request.azimuthDeg, request.parallelDeg)
      \/ /\ request.op = "buildFullSphereLevels"
         /\ BuildFullSphereLevels(s, request.frequencyIndex)
      \/ /\ request.op = "buildBalloonGeometryData"
         /\ BuildBalloonGeometryData(s, request.options)
      \/ request.op = "computeGlobalMaxLevel" /\ ComputeGlobalMaxLevel(s)
      \/ /\ request.op = "computePolarSlices"
         /\ ComputePolarSlices(s, request.frequencyIndex)

\* a caller works on its sources in any order, changing their data at will
NextCache ==
    \E s \in SourceIds :
      \/ ComputeGlobalMaxLevel(s)
      \/ ClearGlobalMaxCache(s)
      \/ \E options \in CacheBuildOptions : BuildBalloonGeometryData(s, options)
      \/ MutateLevel(s)

\* every core operation, on any source, with any arguments, in any order; the
\* source data stay as they are
NextFrame ==
    \E s \in SourceIds :
      \/ GetBalloonGrid(s)
      \/ \E azimuthDeg \in FrameAzimuths, parallelDeg \in FrameParallels :
           GetResponseWithSymmetry(s, azimuthDeg, parallelDeg)
      \/ \E frequencyIndex \in {0, MaxFrequencyIndex} :
           BuildFullSphereLevels(s, frequencyIndex)
      \/ \E options \in FrameBuildOptions : BuildBalloonGeometryData(s, options)
      \/ ComputeGlobalMaxLevel(s)
      \/ ClearGlobalMaxCache(s)
      \/ ComputePolarSlices(s, 0)

NextIndex ==
    /\ request.op = "balloonResponseIndex"
    /\ BalloonResponseIndex(request.meridianIdx, request.parallelIdx,
                            request.meridianCount, request.parallelCount,
                            request.frontHalfOnly)

NextGrid == \E s \in SourceIds : GetBalloonGrid(s)

Spec == Init /\ [][Next]_vars

SpecGrid == InitGrid /\ [][NextGrid]_vars

SpecMissing == InitMissing /\ [][Next]_vars

SpecLocate == InitLocate /\ [][Next]_vars

SpecPolar == InitPolar /\ [][Next]_vars

SpecFrame == InitFrame /\ [][NextFrame]_vars

SpecIndex == InitIndex /\ [][NextIndex]_vars

SpecLoader == InitPage /\ [][NextLoader]_vars

SpecProvider == InitPage /\ [][NextProvider]_vars

SpecCache == InitCache /\ [][NextCache]_vars

(***************************************************************************)
(* Properties                                                              *)
(***************************************************************************)
\* the azimuths of the full-sphere grid
GridAzimuths(grid) == {m * grid.meridianStep : m \in 0..(grid.fullMeridianCount - 1)}

\* the finite levels a source holds
FiniteLevels(source) ==
    UNION {{source.Responses[r].Level[f].v :
              f \in {g \in DOMAIN source.Responses[r].Level :
                        source.Responses[r].Level[g].k = "num"}} :
           r \in DOMAIN source.Responses}

\* x is the maximum finite level of the source, or 0 when it has none
IsMaxFiniteLevel(x, source) ==
    \A finite \in {FiniteLevels(source)} :
        IF finite = {} THEN x = 0
        ELSE x \in finite /\ \A y \in finite : y <= x

\* r is x / y rounded to the nearest integer, halves upwards (y > 0)
RoundsTo(r, x, y) == (2 * r - 1) * y <= 2 * x /\ 2 * x < (2 * r + 1) * y
NearestInteger(x, y) == CHOOSE r \in 0..x : RoundsTo(r, x, y)

\* C1: pole identity.  A lookup at parallel 0, and at parallel 180 when the
\* source is not front-half-only, made at an azimuth of the full-sphere grid,
\* returns what the lookup at every other azimuth of the grid returns at that
\* parallel (the same response, or none for all of them).
C1_PoleIdentity ==
    last.op = "getResponseWithSymmetry" =>
      \A grid \in {getBalloonGrid(sources[last.src])} :
        (/\ grid.available
         /\ grid.symmetry \in SymmetryCodes
         /\ last.azimuthDeg \in GridAzimuths(grid)
         /\ \/ last.parallelDeg = 0
            \/ last.parallelDeg = 180 /\ ~grid.frontHalfOnly)
        => \A azimuthDeg \in GridAzimuths(grid) :
              getResponseWithSymmetry(sources[last.src], grid, azimuthDeg,
                                      last.parallelDeg) = last.result

\* a back-pole lookup on the last meridian of a grid with several meridians finds
\* a response other than the front pole's
C1_Witness ==
    /\ last.op = "getResponseWithSymmetry"
    /\ last.parallelDeg = 180
    /\ last.result.id > 0
    /\ LET grid == getBalloonGrid(sources[last.src])
       IN  /\ ~grid.frontHalfOnly
           /\ grid.fullMeridianCount > 1
           /\ grid.symmetry = SYMMETRY_VERTICAL
           /\ last.azimuthDeg = (grid.fullMeridianCount - 1) * grid.meridianStep

\* C2: global max idempotence.  A call of computeGlobalMaxLevel for a source
\* whose latest cache call was also a computation (no clearGlobalMaxCache in
\* between) returns the value that computation returned and does not rescan the
\* responses, whatever was done to the source's levels in between.
C2_GlobalMaxIdempotent ==
    (last.op = "computeGlobalMaxLevel" /\ last.prev.op = "compute")
    => last.result = last.prev.value /\ ~last.scanned

\* a second call returned the first call's value although the data now has
\* another maximum
C2_Witness ==
    /\ last.op = "computeGlobalMaxLevel"
    /\ last.prev.op = "compute"
    /\ ~last.scanned
    /\ last.result = last.prev.value
    /\ mutations > 0
    /\ ~IsMaxFiniteLevel(last.result, sources[last.src])

\* C3: cache invalidation.  The first computeGlobalMaxLevel after
\* clearGlobalMaxCache for the same source rescans, returns the maximum finite
\* level of the data as it is at that moment, and stores it in the cache.
C3_ClearForcesRescan ==
    (last.op = "computeGlobalMaxLevel" /\ last.prev.op = "clear")
    => /\ last.scanned
       /\ IsMaxFiniteLevel(last.result, sources[last.src])
       /\ globalMaxCache[last.src] = Entry(last.result)

\* the computation after the clear returned another value than the one before
C3_Witness ==
    /\ last.op = "computeGlobalMaxLevel"
    /\ last.prev.op = "clear"
    /\ last.scanned
    /\ last.result # last.prev.value
    /\ globalMaxCache[last.src] = Entry(last.result)

\* C4: with no cache entry for the source object, computeGlobalMaxLevel returns the
\* maximum of the finite levels of all responses at all frequency indices,
\* ignoring every other entry, and 0 when there is no finite level (also when
\* there is no response); that value is the new cache entry.
C4_ScanReturnsMaxFinite ==
    (last.op = "computeGlobalMaxLevel" /\ last.scanned /\ ~IsAbsent(sources[last.src]))
    => /\ IsMaxFiniteLevel(last.result, sources[last.src])
       /\ globalMaxCache[last.src] = Entry(last.result)

\* a scan of a source that holds finite levels, all negative, and others
C4_Witness ==
    /\ last.op = "computeGlobalMaxLevel"
    /\ last.scanned
    /\ last.result < 0
    /\ \E r \in DOMAIN sources[last.src].Responses :
         \E f \in DOMAIN sources[last.src].Responses[r].Level :
           sources[last.src].Responses[r].Level[f].k \in {"nan", "inf", "str"}

\* C4, the empty case: a scan of a source without responses returns 0
C4_WitnessEmpty ==
    /\ last.op = "computeGlobalMaxLevel"
    /\ last.scanned
    /\ sources[last.src].Responses = <<>>
    /\ last.result = 0

\* C5: axial collapse.  With Axial symmetry a lookup at any azimuth returns
\* what the lookup at azimuth 0 returns at the same parallel, in balloon-utils.ts
\* and in polar-utils.js.
C5_AxialCollapse ==
    last.op = "getResponseWithSymmetry" =>
      \A grid \in {getBalloonGrid(sources[last.src])} :
        (grid.available /\ grid.symmetry = SYMMETRY_AXIAL)
        => /\ last.result = getResponseWithSymmetry(sources[last.src], grid, 0,
                                                    last.parallelDeg)
           /\ getResponseWithSymmetry_polar(sources[last.src], grid,
                                            last.azimuthDeg, last.parallelDeg)
                = getResponseWithSymmetry_polar(sources[last.src], grid, 0,
                                                last.parallelDeg)

\* an axial lookup off the poles, at an azimuth beyond a full turn, finds a response
C5_Witness ==
    /\ last.op = "getResponseWithSymmetry"
    /\ getBalloonGrid(sources[last.src]).available
    /\ getBalloonGrid(sources[last.src]).symmetry = SYMMETRY_AXIAL
    /\ last.azimuthDeg > 360
    /\ last.parallelDeg > 0
    /\ last.parallelDeg < 180
    /\ last.result.id > 0

\* C6: getBalloonGrid returns no descriptor exactly when the meridian step or
\* the parallel step is missing or <= 0, so that a descriptor returned has
\* meridianStep > 0 and parallelStep > 0.
C6_UnavailableIffStepNotPositive ==
    last.op = "getBalloonGrid" =>
      LET ang == sources[last.src].ang
          positive(step) == step.k = "num" /\ step.v > 0
      IN  /\ last.result.available
               <=> (ang.present /\ positive(ang.MeridianStep) /\ positive(ang.ParallelStep))
          /\ last.result.available
               => (last.result.meridianStep > 0 /\ last.result.parallelStep > 0)

\* C7: the counts of the descriptor, for positive steps.
C7_GridCounts ==
    last.op = "getBalloonGrid" =>
      LET ang == sources[last.src].ang
          ms == ang.MeridianStep.v
          ps == ang.ParallelStep.v
          grid == last.result
      IN  (/\ ang.present
           /\ ang.MeridianStep.k = "num" /\ ms > 0
           /\ ang.ParallelStep.k = "num" /\ ps > 0)
          => /\ grid.available
             /\ grid.fullMeridianCount = MathMax(1, NearestInteger(360, ms))
             /\ grid.fullParallelCount = MathMax(1, NearestInteger(180, ps) + 1)
             /\ ps = 5 => grid.fullParallelCount = 37
             /\ ang.Symmetry = Num(SYMMETRY_AXIAL) => grid.meridianCount = 1
             /\ ang.Symmetry = Num(SYMMETRY_QUARTER)
                  => grid.meridianCount = NearestInteger(90, ms) + 1
             /\ ang.Symmetry \in {Num(SYMMETRY_VERTICAL), Num(SYMMETRY_HORIZONTAL)}
                  => grid.meridianCount = NearestInteger(180, ms) + 1
             /\ ang.Symmetry = Num(SYMMETRY_NONE)
                  => grid.meridianCount = grid.fullMeridianCount
             /\ grid.parallelCount = IF ang.FrontHalfOnly
                                     THEN NearestInteger(90, ps) + 1
                                     ELSE grid.fullParallelCount
             /\ grid.fullMeridianCount >= 1
             /\ grid.fullParallelCount >= 1
             /\ grid.meridianCount >= 1
             /\ grid.parallelCount >= 1

\* a front-half-only Quarter grid with parallel step 5 and a meridian step that
\* does not divide 90
C7_Witness ==
    /\ last.op = "getBalloonGrid"
    /\ last.result.available
    /\ last.result.parallelStep = 5
    /\ last.result.fullParallelCount = 37
    /\ last.result.parallelCount = 19
    /\ last.result.symmetry = SYMMETRY_QUARTER
    /\ last.result.meridianStep = 16
    /\ last.result.meridianCount = 7
    /\ last.result.fullMeridianCount = 23

\* the entry the level grid must hold for a response: its level at the
\* frequency index when that is a finite number, the placeholder otherwise
ExpectedEntry(response, frequencyIndex) ==
    IF /\ response # NoResponse
       /\ frequencyIndex >= 0
       /\ frequencyIndex < Len(response.Level)
       /\ response.Level[frequencyIndex + 1].k = "num"
    THEN response.Level[frequencyIndex + 1]
    ELSE Num(-100)

\* C8: buildFullSphereLevels returns fullParallelCount rows of fullMeridianCount
\* entries; entry [p][m] is the level at the frequency index of the response
\* located at (m * meridianStep, p * parallelStep) when there is one and the
\* level is finite, and -100 otherwise; every entry is a finite number.
C8_FullSphereLevels ==
    (last.op = "buildFullSphereLevels" /\ ~last.threw) =>
      \A grid \in {getBalloonGrid(sources[last.src])} :
        /\ Len(last.result) = grid.fullParallelCount
        /\ \A p \in 1..Len(last.result) :
             /\ Len(last.result[p]) = grid.fullMeridianCount
             /\ \A m \in 1..Len(last.result[p]) :
                  /\ last.result[p][m] =
                       ExpectedEntry(
                         getResponseWithSymmetry(sources[last.src], grid,
                                                 (m - 1) * grid.meridianStep,
                                                 (p - 1) * grid.parallelStep),
                         last.frequencyIndex)
                  /\ last.result[p][m].k = "num"

\* a grid holding a measured level, a placeholder for a response that is not
\* there, and a placeholder for a response whose level is not finite
C8_Witness ==
    /\ last.op = "buildFullSphereLevels"
    /\ ~last.threw
    /\ last.frequencyIndex = 1
    /\ LET grid == getBalloonGrid(sources[last.src])
           located(p, m) == getResponseWithSymmetry(sources[last.src], grid,
                                                    (m - 1) * grid.meridianStep,
                                                    (p - 1) * grid.parallelStep)
       IN  /\ \E p \in 1..Len(last.result) : \E m \in 1..Len(last.result[p]) :
                last.result[p][m] # Num(-100)
           /\ \E p \in 1..Len(last.result) : \E m \in 1..Len(last.result[p]) :
                /\ located(p, m) = NoResponse
                /\ last.result[p][m] = Num(-100)
           /\ \E p \in 1..Len(last.result) : \E m \in 1..Len(last.result[p]) :
                /\ located(p, m) # NoResponse
                /\ Len(located(p, m).Level) >= 2
                /\ located(p, m).Level[2].k \in {"nan", "inf", "ninf", "str"}
                /\ last.result[p][m] = Num(-100)

C10_CompleteTenDegreeSource ==
    (last.op # "init" /\ sources[last.src] \in {TenDegreeSource, TenDegreeSourcePerPoint}) =>
      /\ last.op = "computeGlobalMaxLevel" => last.result = -20
      /\ (last.op = "buildFullSphereLevels" /\ last.frequencyIndex = 0) =>
           /\ ~last.threw
           /\ Len(last.result) = 19
           /\ \A p \in 1..Len(last.result) :
                /\ Len(last.result[p]) = 36
                /\ \A m \in 1..Len(last.result[p]) : last.result[p][m] = Num(-20)
      /\ (/\ last.op = "buildBalloonGeometryData"
          /\ last.options.frequencyIndex = 0
          /\ last.options.dbRange = 40) =>
           /\ last.result.available
           /\ last.result.globalMax = -20
           /\ \A i \in DOMAIN last.result.colors :
                last.result.colors[i].normalized = FracOne
           /\ \A i \in DOMAIN last.result.vertices :
                last.result.vertices[i].radius = Frac(12 * last.options.scale, 10)

\* the mesh of the complete 10-degree source, built at frequency index 0 with
\* dbRange 40
C10_Witness ==
    /\ last.op = "buildBalloonGeometryData"
    /\ sources[last.src] = TenDegreeSource
    /\ last.options.frequencyIndex = 0
    /\ last.options.dbRange = 40
    /\ last.result.available
    /\ Len(last.result.vertices) = 3 * 19 * 37
    /\ last.result.colors[1].normalized = FracOne

\* the index at which the complete 10-degree source stores the response of grid
\* cell (p, m), 0-based: the poles once, 19 points on meridian 0, 17 on the others
TenDegreeCellIndex(p, m) ==
    IF p = 0 \/ p = 18 \/ m = 0 THEN p ELSE 19 + (m - 1) * 17 + (p - 1)

\* the result of the latest call shows the response of index k, and no other,
\* as missing: in the level grid the cells of k hold -100 and the others -20; in
\* the mesh the vertices of k have normalized 0 and the minimum radius
\* 0.3 * scale, the others normalized 1
ShowsMissingAt(k) ==
    /\ last.op = "buildFullSphereLevels" /\ last.frequencyIndex = 0 =>
         /\ ~last.threw
         /\ Len(last.result) = 19
         /\ \A p \in 1..Len(last.result) :
              /\ Len(last.result[p]) = 36
              /\ \A m \in 1..Len(last.result[p]) :
                   last.result[p][m] = IF TenDegreeCellIndex(p - 1, m - 1) = k
                                       THEN Num(-100) ELSE Num(-20)
    /\ last.op = "buildBalloonGeometryData" =>
         /\ last.result.available
         /\ last.result.globalMax = -20
         /\ Len(last.result.vertices) = 3 * 19 * 37
         /\ \A i \in DOMAIN last.result.vertices :
              LET vertex == last.result.vertices[i]
                  missing == TenDegreeCellIndex(vertex.pIdx, vertex.mIdx % 36) = k
              IN  /\ last.result.colors[i].normalized
                       = IF missing THEN FracZero ELSE FracOne
                  /\ vertex.radius = IF missing
                                     THEN Frac(3 * last.options.scale, 10)
                                     ELSE Frac(12 * last.options.scale, 10)

\* C11 as stated: whichever response is removed from the array of the complete
\* 10-degree source, and however (taken out, or its slot emptied), the cell of
\* that response holds -100 and every other cell -20, and in the mesh
\* (dbRange 40) that cell has normalized 0 and the minimum radius.
C11_RemovedResponseCell ==
    last.op # "init" =>
      \A k \in RemovedIndices :
        sources[last.src] \in {TenDegreeSpliced(k), TenDegreeHole(k)} => ShowsMissingAt(k)

\* C11 amended: the same, when the other responses stay at their indices: the
\* slot of the response is emptied, or the response removed is the last of the
\* array.
C11_MissingResponseCell ==
    last.op # "init" =>
      \A k \in RemovedIndices :
        (\/ sources[last.src] = TenDegreeHole(k)
         \/ /\ sources[last.src] = TenDegreeSpliced(k)
            /\ k = Len(TenDegreeSource.Responses) - 1)
        => ShowsMissingAt(k)

\* the mesh of the source whose last response was taken out: the vertex of that
\* response has the minimum radius
C11_Witness ==
    /\ last.op = "buildBalloonGeometryData"
    /\ sources[last.src] = TenDegreeSpliced(Len(TenDegreeSource.Responses) - 1)
    /\ last.result.available
    /\ \E i \in DOMAIN last.result.vertices :
         /\ last.result.vertices[i].pIdx = 17
         /\ last.result.vertices[i].mIdx = 35
         /\ last.result.vertices[i].radius = Frac(3 * last.options.scale, 10)
         /\ last.result.colors[i].normalized = FracZero

\* the angles 0, -10, ..., -180, 170, ..., 10
ExpectedPolarAngles == [i \in 1..36 |-> IF i <= 19 THEN -10 * (i - 1) ELSE 10 * (37 - i)]

\* the on-axis Level array of a source (empty when there is no on-axis spectrum)
OnAxisLevelOf(source) ==
    IF OnAxisOf(source).present THEN OnAxisOf(source).Level ELSE <<>>

\* the slice entry for the response located at (meridianDeg, parallelDeg)
EntryLookedUpAt(source, meridianDeg, parallelDeg, freqIndex, usesOnAxis) ==
    SliceEntry(getResponseWithSymmetry_polar(source, getBalloonGrid(source),
                                             meridianDeg, parallelDeg),
               freqIndex, usesOnAxis, OnAxisLevelOf(source))

\* C12: computePolarSlices evaluates the 36 angles 0, -10, ..., -180, 170, ..., 10
\* in that order; labels, horizontal.levels and vertical.levels have one entry
\* per angle in that order; the horizontal entry of angle a is looked up at
\* parallel |a| and meridian 90 (a >= 0) or 270 (a < 0), the vertical entry at
\* parallel |a| and meridian 0 (a >= 0) or 180 (a < 0).
C12_PolarAngleOrder ==
    (last.op = "computePolarSlices" /\ last.result.available) =>
      LET slices == last.result
          source == sources[last.src]
      IN  /\ slices.angles = ExpectedPolarAngles
          /\ Len(slices.labels) = 36
          /\ Len(slices.horizontal.levels) = 36
          /\ Len(slices.vertical.levels) = 36
          /\ \A i \in 1..36 :
               LET a == ExpectedPolarAngles[i]
               IN  /\ slices.labels[i] = (IF a = 0 THEN [k |-> "zero", v |-> 0]
                                          ELSE IF a = -180 THEN [k |-> "pm180", v |-> 180]
                                          ELSE [k |-> "deg", v |-> a])
                   /\ slices.hLookups[i] = <<IF a >= 0 THEN 90 ELSE 270, Abs(a)>>
                   /\ slices.vLookups[i] = <<IF a >= 0 THEN 0 ELSE 180, Abs(a)>>
                   /\ slices.horizontal.levels[i] =
                        EntryLookedUpAt(source, IF a >= 0 THEN 90 ELSE 270, Abs(a),
                                        last.frequencyIndex, slices.meta.usesOnAxis)
                   /\ slices.vertical.levels[i] =
                        EntryLookedUpAt(source, IF a >= 0 THEN 0 ELSE 180, Abs(a),
                                        last.frequencyIndex, slices.meta.usesOnAxis)

\* slices of a source without symmetry in which the entries of the angles -30
\* and 30 differ, in the horizontal and in the vertical slice, and the
\* horizontal entry of -30 differs from the vertical one
C12_Witness ==
    /\ last.op = "computePolarSlices"
    /\ last.result.available
    /\ last.result.meta.symmetry = SYMMETRY_NONE
    /\ last.result.angles[4] = -30
    /\ last.result.angles[34] = 30
    /\ \A i \in {4, 34} : /\ last.result.horizontal.levels[i].k = "num"
                          /\ last.result.vertical.levels[i].k = "num"
    /\ last.result.horizontal.levels[4] # last.result.horizontal.levels[34]
    /\ last.result.vertical.levels[4] # last.result.vertical.levels[34]
    /\ last.result.horizontal.levels[4] # last.result.vertical.levels[4]

\* the response computePolarSlices locates for entry i of a slice
LocatedForSlice(source, plane, i) ==
    LET a == ExpectedPolarAngles[i]
        meridianDeg == IF plane = "horizontal"
                       THEN (IF a >= 0 THEN 90 ELSE 270)
                       ELSE (IF a >= 0 THEN 0 ELSE 180)
    IN  getResponseWithSymmetry_polar(source, getBalloonGrid(source), meridianDeg, Abs(a))

SliceLevels(slices, plane) ==
    IF plane = "horizontal" THEN slices.horizontal.levels ELSE slices.vertical.levels

\* C13: in computePolarSlices, when the Locator finds no response for an angle
\* the slice entry of that angle is null, with and without on-axis combination.
C13_NoResponseIsNull ==
    (last.op = "computePolarSlices" /\ last.result.available) =>
      \A plane \in {"horizontal", "vertical"} : \A i \in 1..36 :
        LocatedForSlice(sources[last.src], plane, i) = NoResponse
        => SliceLevels(last.result, plane)[i] = Null

\* slices that use the on-axis spectrum, with a combined level at the front
\* and null behind a front-half-only grid
C13_Witness ==
    /\ last.op = "computePolarSlices"
    /\ last.result.available
    /\ last.result.meta.usesOnAxis
    /\ last.result.meta.frontHalfOnly
    /\ last.result.horizontal.levels[1].k = "num"
    /\ LocatedForSlice(sources[last.src], "horizontal", 13) = NoResponse
    /\ last.result.horizontal.levels[13] = Null
    /\ last.result.vertical.levels[13] = Null

\* the level of a response at a frequency index is NaN, +/-Infinity or absent
NonFiniteLevelAt(response, freqIndex) ==
    ElementAt(response.Level, freqIndex).k \in {"nan", "inf", "ninf", "undef"}

\* C14: when the level of the located response at the frequency index is NaN,
\* +/-Infinity or absent, buildFullSphereLevels stores -100 for the cell and
\* computePolarSlices stores null for the angle, with and without on-axis
\* combination.
C14_NonFiniteIsMissing ==
    /\ (last.op = "buildFullSphereLevels" /\ ~last.threw) =>
         \A grid \in {getBalloonGrid(sources[last.src])} :
           \A p \in 1..Len(last.result) : \A m \in 1..Len(last.result[p]) :
             LET response == getResponseWithSymmetry(sources[last.src], grid,
                                                     (m - 1) * grid.meridianStep,
                                                     (p - 1) * grid.parallelStep)
             IN  (response # NoResponse /\ NonFiniteLevelAt(response, last.frequencyIndex))
                 => last.result[p][m] = Num(-100)
    /\ (last.op = "computePolarSlices" /\ last.result.available) =>
         \A plane \in {"horizontal", "vertical"} : \A i \in 1..36 :
           LET response == LocatedForSlice(sources[last.src], plane, i)
           IN  (response # NoResponse /\ NonFiniteLevelAt(response, last.frequencyIndex))
               => SliceLevels(last.result, plane)[i] = Null

\* an on-axis spectrum is present and its frequency axis (start_freq * 2^i, one
\* value per entry of its Level array) matches the Frequencies of the first
\* response within 0.1 %
OnAxisAxisMatches(source) ==
    LET onAxis == OnAxisOf(source)
    IN  /\ onAxis.present
        /\ Len(onAxis.Level) > 0
        /\ onAxis.definition.present
        /\ onAxis.definition.bands_per_octave = 1
        /\ onAxis.definition.start_freq > 0
        /\ Len(source.Responses) > 0
        /\ LET frequencies == FrequenciesOf(source.Responses[1])
           IN  /\ Len(frequencies) = Len(onAxis.Level)
               /\ \A j \in 1..Len(frequencies) :
                    /\ frequencies[j].k = "num"
                    /\ LET f == onAxis.definition.start_freq * Pow2(j - 1)
                       IN  1000 * Abs(frequencies[j].v - f) <= f

\* C15: a finite slice level is replaced by level + on-axis level at the
\* frequency index when an on-axis spectrum is present, its frequency axis
\* matches the responses' and its Level array has an entry at the frequency
\* index; in every other case the raw level is output; meta.usesOnAxis is true
\* when the combination was applied and false when the on-axis spectrum is
\* absent or does not match.
C15_OnAxisCombination ==
    (last.op = "computePolarSlices" /\ last.result.available) =>
      LET source == sources[last.src]
          f == last.frequencyIndex
          onAxisLevel == OnAxisLevelOf(source)
          applies == /\ OnAxisAxisMatches(source)
                     /\ f >= 0
                     /\ f < Len(onAxisLevel)
      IN  /\ applies => last.result.meta.usesOnAxis
          /\ last.result.meta.usesOnAxis => OnAxisAxisMatches(source)
          /\ \A plane \in {"horizontal", "vertical"} : \A i \in 1..36 :
               LET level == ElementAt(LocatedForSlice(source, plane, i).Level, f)
               IN  level.k = "num" =>
                     SliceLevels(last.result, plane)[i] =
                       IF applies THEN JsAdd(level, onAxisLevel[f + 1]) ELSE level

\* C16: with an unavailable grid descriptor every downstream component yields
\* 'no data' without throwing: buildBalloonGeometryData and computePolarSlices
\* return null, getResponseWithSymmetry returns null, and buildFullSphereLevels
\* returns a no-data result instead of raising an error.
C16_UnavailableShortCircuits ==
    (last.op # "init" /\ ~getBalloonGrid(sources[last.src]).available) =>
      /\ last.op = "buildBalloonGeometryData" => ~last.result.available
      /\ last.op = "computePolarSlices" => ~last.result.available
      /\ last.op = "getResponseWithSymmetry" => last.result = NoResponse
      /\ last.op = "buildFullSphereLevels" => ~last.threw

\* C17: computeGlobalMaxLevel never throws and returns a number, for every
\* source value; for a source without responses, with responses that hold no
\* finite level, and for an absent source it returns 0.
C17_ComputeNeverThrows ==
    last.op = "computeGlobalMaxLevel" =>
      /\ ~last.threw
      /\ (IsAbsent(sources[last.src]) \/ FiniteLevels(sources[last.src]) = {})
           => last.result = 0

\* C18: for a source that is not modified, buildBalloonGeometryData returns at
\* every frequency index and at every call the same globalMax, with
\* displayMax = globalMax and displayMin = globalMax - dbRange, and that
\* globalMax is what computeGlobalMaxLevel( source ) returns before the build
\* and after it.
C18_FrequencyIndependentRange ==
    [][(last'.op = "buildBalloonGeometryData" /\ last'.result.available) =>
         LET s == last'.src
             result == last'.result
         IN  /\ result.globalMax = GlobalMaxOf(globalMaxCache, s, sources[s])
             /\ result.globalMax = GlobalMaxOf(globalMaxCache', s, sources'[s])
             /\ result.globalMax = ScanGlobalMax(sources[s])
             /\ result.displayMax = result.globalMax
             /\ result.displayMin = result.globalMax - last'.options.dbRange
             /\ (/\ last.op = "buildBalloonGeometryData"
                 /\ last.src = s
                 /\ last.result.available)
                  => last.result.globalMax = result.globalMax]_vars

\* the levels the full-sphere grid shows at a frequency index
ShownLevels(source, frequencyIndex) ==
    LET levels == buildFullSphereLevels(source, getBalloonGrid(source), frequencyIndex)
    IN  UNION {{levels[p][m].v : m \in DOMAIN levels[p]} : p \in DOMAIN levels}

\* a build at the last frequency index follows a call that filled the cache,
\* and no level shown at that frequency index reaches globalMax
C18_Witness ==
    /\ last.op = "buildBalloonGeometryData"
    /\ last.result.available
    /\ last.options.frequencyIndex = MaxFrequencyIndex
    /\ last.prev.op = "compute"
    /\ \A level \in ShownLevels(sources[last.src], MaxFrequencyIndex) :
         level < last.result.globalMax

\* C19: no core operation modifies a source, and the only cache entry an
\* operation changes is that of the source passed to computeGlobalMaxLevel,
\* clearGlobalMaxCache or buildBalloonGeometryData; getBalloonGrid,
\* getResponseWithSymmetry, buildFullSphereLevels and computePolarSlices
\* change no cache entry.
C19_FrameCondition ==
    [][/\ sources' = sources
       /\ \A t \in SourceIds :
            globalMaxCache'[t] # globalMaxCache[t] =>
              /\ t = last'.src
              /\ last'.op \in {"computeGlobalMaxLevel", "clearGlobalMaxCache",
                               "buildBalloonGeometryData"}]_vars

\* a read-only operation has run on one source while the other source has a
\* cache entry, and a cache operation has run on one source while the other
\* has an entry
C19_Witness ==
    /\ last.op \in {"computePolarSlices", "clearGlobalMaxCache"}
    /\ \E t \in SourceIds : t # last.src /\ globalMaxCache[t].has
    /\ ~globalMaxCache[last.src].has

\* the points of a stored grid, and the poles stored once
StoredPoints(meridianCount, parallelCount) ==
    (0..(meridianCount - 1)) \X (0..(parallelCount - 1))
IsStoredPole(parallelIdx, parallelCount, frontHalfOnly) ==
    parallelIdx = 0 \/ (parallelIdx = parallelCount - 1 /\ ~frontHalfOnly)

\* C20: for a stored grid with parallelCount >= 2 and meridianCount >= 1,
\* balloonResponseIndex (both copies) gives two points the same flat index
\* exactly when they are the same point or the same pole, and the indices of
\* all points are exactly 0 .. parallelCount + (meridianCount - 1) *
\* pointsPerMeridian - 1, pointsPerMeridian = parallelCount - (frontHalfOnly ?
\* 1 : 2).
C20_PoleDeduplicatedLayout ==
    last.op = "balloonResponseIndex" =>
      LET mc == last.meridianCount
          pc == last.parallelCount
          fh == last.frontHalfOnly
          pointsPerMeridian == pc - (IF fh THEN 1 ELSE 2)
          points == StoredPoints(mc, pc)
          here == <<last.meridianIdx, last.parallelIdx>>
      IN  /\ last.resultPolar = last.result
          /\ last.result \in 0..(pc + (mc - 1) * pointsPerMeridian - 1)
          /\ \A a \in points :
               /\ balloonResponseIndex_polar(a[1], a[2], mc, pc, fh)
                    = balloonResponseIndex(a[1], a[2], mc, pc, fh)
               /\ (balloonResponseIndex(a[1], a[2], mc, pc, fh) = last.result)
                    <=> (a = here \/ (a[2] = here[2] /\ IsStoredPole(a[2], pc, fh)))
          /\ {balloonResponseIndex(a[1], a[2], mc, pc, fh) : a \in points}
               = 0..(pc + (mc - 1) * pointsPerMeridian - 1)

\* the last point of the last meridian of a front-half-only grid with several
\* meridians has the last index of the range
C20_Witness ==
    /\ last.op = "balloonResponseIndex"
    /\ last.frontHalfOnly
    /\ last.meridianCount > 2
    /\ last.meridianIdx = last.meridianCount - 1
    /\ last.parallelIdx = last.parallelCount - 1
    /\ last.result = last.parallelCount
                       + (last.meridianCount - 1) * (last.parallelCount - 1) - 1

\* C21: after normalisation and folding of any azimuth the lookup azimuth lies
\* in [0,90] for Quarter, in [0,180] for Vertical and for Horizontal, is 0 for
\* Axial and lies in [0,360) for None; Quarter folds azimuth 260 to 80.
C21_FoldingRange ==
    (last.op = "getResponseWithSymmetry" /\ last.folded) =>
      LET symmetry == getBalloonGrid(sources[last.src]).symmetry
          a == last.lookupAzimuth
      IN  /\ symmetry = SYMMETRY_QUARTER => a \in 0..90
          /\ symmetry \in {SYMMETRY_VERTICAL, SYMMETRY_HORIZONTAL} => a \in 0..180
          /\ symmetry = SYMMETRY_AXIAL => a = 0
          /\ symmetry = SYMMETRY_NONE => a \in 0..359
          /\ (symmetry = SYMMETRY_QUARTER /\ last.azimuthDeg = 260) => a = 80

C21_Witness ==
    /\ last.op = "getResponseWithSymmetry"
    /\ last.folded
    /\ getBalloonGrid(sources[last.src]).symmetry = SYMMETRY_QUARTER
    /\ last.azimuthDeg = 260
    /\ last.lookupAzimuth = 80

\* C22: for a front-half-only grid the locator finds nothing at any parallel
\* above 90, whatever the symmetry, and for any grid it finds nothing at a
\* parallel below 0 or above 180; so every row of buildFullSphereLevels of a
\* front-half-only source whose parallel angle exceeds 90 holds -100 only.
C22_FrontHalfRejection ==
    LET grid == getBalloonGrid(sources[last.src])
    IN  /\ (/\ last.op = "getResponseWithSymmetry"
            /\ \/ last.parallelDeg < 0
               \/ last.parallelDeg > 180
               \/ grid.available /\ grid.frontHalfOnly /\ last.parallelDeg > 90)
             => /\ last.result = NoResponse
                /\ last.resultPolar = NoResponse
                /\ last.lookupParallel = -1
        /\ (/\ last.op = "buildFullSphereLevels"
            /\ ~last.threw
            /\ grid.frontHalfOnly)
             => \A p \in 1..Len(last.result) :
                  (p - 1) * grid.parallelStep > 90 =>
                    \A m \in 1..Len(last.result[p]) :
                      last.result[p][m] = Num(MISSING_LEVEL)

\* a front-half-only grid whose symmetry mirrors parallels is asked for a
\* parallel behind the front half whose mirror image is measured
C22_Witness ==
    /\ last.op = "getResponseWithSymmetry"
    /\ last.folded
    /\ LET grid == getBalloonGrid(sources[last.src])
       IN  /\ grid.frontHalfOnly
           /\ grid.symmetry \in {SYMMETRY_HORIZONTAL, SYMMETRY_QUARTER}
           /\ last.parallelDeg > 90
           /\ 180 - last.parallelDeg <= grid.measuredParallelDeg
           /\ 180 - last.parallelDeg >= 0
    /\ last.result = NoResponse

\* C23: a parallel p in [0,180] that the front-half-only rule lets through and
\* that exceeds measuredParallelDeg is looked up at 180 - p if the symmetry is
\* Horizontal or Quarter and 180 - p <= measuredParallelDeg, and is not found
\* otherwise; a parallel within measuredParallelDeg is looked up as it is.
C23_ParallelMirroring ==
    (/\ last.op = "getResponseWithSymmetry"
     /\ last.folded
     /\ last.parallelDeg >= 0
     /\ last.parallelDeg <= 180
     /\ ~(getBalloonGrid(sources[last.src]).frontHalfOnly /\ last.parallelDeg > 90))
      => LET grid == getBalloonGrid(sources[last.src])
             p == last.parallelDeg
         IN  IF p > grid.measuredParallelDeg
             THEN IF /\ grid.symmetry \in {SYMMETRY_HORIZONTAL, SYMMETRY_QUARTER}
                     /\ 180 - p <= grid.measuredParallelDeg
                  THEN /\ last.lookupParallel = 180 - p
                       /\ last.result = getResponseWithSymmetry(sources[last.src], grid,
                                                                last.azimuthDeg, 180 - p)
                       /\ last.resultPolar = last.result
                  ELSE /\ last.lookupParallel = -1
                       /\ last.result = NoResponse
                       /\ last.resultPolar = NoResponse
             ELSE last.lookupParallel = p

\* a parallel beyond the measured range is found through its mirror image
C23_Witness ==
    /\ last.op = "getResponseWithSymmetry"
    /\ last.folded
    /\ last.parallelDeg > getBalloonGrid(sources[last.src]).measuredParallelDeg
    /\ last.lookupParallel = 180 - last.parallelDeg
    /\ last.result # NoResponse

\* a source that is not front-half-only, whose steps divide 90 and whose
\* response array holds every stored point
IsCompleteSource(source) ==
    LET grid == getBalloonGrid(source)
    IN  /\ grid.available
        /\ ~grid.frontHalfOnly
        /\ grid.meridianStep > 0 /\ 90 % grid.meridianStep = 0
        /\ grid.parallelStep > 0 /\ 90 % grid.parallelStep = 0
        /\ Len(source.Responses) >=
             grid.parallelCount + (grid.meridianCount - 1) * (grid.parallelCount - 2)

\* C26: for a complete source (not front-half-only, steps dividing 90, at least
\* parallelCount + (meridianCount-1)*(parallelCount-2) responses) the locator
\* finds a response at every point of the full-sphere grid under each symmetry,
\* so buildFullSphereLevels holds -100 only where the level of the located
\* response is missing or not a finite number (or is -100 itself).
C26_CompleteSphere ==
    (last.op # "init" /\ IsCompleteSource(sources[last.src])) =>
      LET source == sources[last.src]
          grid == getBalloonGrid(source)
      IN  /\ (/\ last.op = "getResponseWithSymmetry"
              /\ last.azimuthDeg \in GridAzimuths(grid)
              /\ last.parallelDeg \in
                   {p * grid.parallelStep : p \in 0..(grid.fullParallelCount - 1)})
               => /\ last.result # NoResponse
                  /\ last.resultPolar = last.result
          /\ (last.op = "buildFullSphereLevels" /\ ~last.threw) =>
               \A p \in 1..Len(last.result) : \A m \in 1..Len(last.result[p]) :
                 \A response \in {getResponseWithSymmetry(source, grid,
                                      (m - 1) * grid.meridianStep,
                                      (p - 1) * grid.parallelStep)} :
                   /\ response # NoResponse
                   /\ last.result[p][m] = Num(MISSING_LEVEL) =>
                        \/ ~IsFiniteNumber(LevelAt(response, last.frequencyIndex))
                        \/ LevelAt(response, last.frequencyIndex) = Num(MISSING_LEVEL)

\* a point of the back half of a Quarter source is found
C26_Witness ==
    /\ last.op = "getResponseWithSymmetry"
    /\ IsCompleteSource(sources[last.src])
    /\ getBalloonGrid(sources[last.src]).symmetry = SYMMETRY_QUARTER
    /\ last.azimuthDeg \in GridAzimuths(getBalloonGrid(sources[last.src]))
    /\ last.azimuthDeg > 180
    /\ last.parallelDeg = 90
    /\ last.result # NoResponse

\* C27: for every azimuth a and parallel p the locator gives the same result
\* at a and 360 - a under Vertical symmetry, at a and 180 - a under Horizontal
\* symmetry, both under Quarter symmetry, and at a and a + 360*k under every
\* symmetry (k = -1, 1, 2 here); so does the copy in polar-utils.js.
C27_MirrorEquivalence ==
    last.op = "getResponseWithSymmetry" =>
      LET source == sources[last.src]
          grid == getBalloonGrid(source)
          a == last.azimuthDeg
          p == last.parallelDeg
          symmetry == IF grid.available THEN grid.symmetry ELSE SYMMETRY_NONE
      IN  /\ symmetry \in {SYMMETRY_VERTICAL, SYMMETRY_QUARTER} =>
               /\ last.result = getResponseWithSymmetry(source, grid, 360 - a, p)
               /\ last.resultPolar = getResponseWithSymmetry_polar(source, grid, 360 - a, p)
          /\ symmetry \in {SYMMETRY_HORIZONTAL, SYMMETRY_QUARTER} =>
               /\ last.result = getResponseWithSymmetry(source, grid, 180 - a, p)
               /\ last.resultPolar = getResponseWithSymmetry_polar(source, grid, 180 - a, p)
          /\ \A k \in {-1, 1, 2} :
               /\ last.result = getResponseWithSymmetry(source, grid, a + 360 * k, p)
               /\ last.resultPolar =
                    getResponseWithSymmetry_polar(source, grid, a + 360 * k, p)

\* a response found under Horizontal symmetry at an azimuth of the half that is
\* not measured
C27_Witness ==
    /\ last.op = "getResponseWithSymmetry"
    /\ getBalloonGrid(sources[last.src]).symmetry = SYMMETRY_HORIZONTAL
    /\ last.azimuthDeg = 300
    /\ last.parallelDeg = 30
    /\ last.result # NoResponse
    /\ last.result # getResponseWithSymmetry(sources[last.src],
                                             getBalloonGrid(sources[last.src]), 120, 30)

\* the level behind vertex number i (1-based) of a geometry
VertexLevel(levels, grid, position) ==
    levels[MathMin(position.pIdx, grid.fullParallelCount - 1) + 1]
          [(position.mIdx % grid.fullMeridianCount) + 1].v

\* C24: for every vertex, whatever the level, globalMax and dbRange, normalized
\* lies in [0,1] and the radius in [0.3*scale, 1.2*scale]; a level >= displayMax
\* gives normalized 1 and a level <= displayMin gives normalized 0.
C24_NormalizedRange ==
    (last.op = "buildBalloonGeometryData" /\ last.result.available) =>
      \A grid \in {getBalloonGrid(sources[last.src])} :
        \A levels \in {buildFullSphereLevels(sources[last.src], grid,
                                             last.options.frequencyIndex)} :
          \A i \in 1..(Len(last.result.vertices) \div 3) :
            LET position == last.result.vertices[3 * i]
                normalized == last.result.colors[3 * i].normalized
                radius == position.radius
                level == VertexLevel(levels, grid, position)
                scale == last.options.scale
            IN  /\ normalized.k = "num"
                /\ 0 <= normalized.n /\ normalized.n <= normalized.d
                /\ radius.k = "num"
                /\ 3 * scale * radius.d <= 10 * radius.n
                /\ 10 * radius.n <= 12 * scale * radius.d
                /\ level >= last.result.displayMax => normalized = FracOne
                /\ level <= last.result.displayMin => normalized = FracZero

\* C25: with meridianVertCount = fullMeridianCount + 1, for every row p in
\* [0, fullParallelCount-1) and column m in [0, fullMeridianCount) the index
\* array holds, in row-major order, the triangles (current, next, current+1)
\* and (current+1, next, next+1), current = p*meridianVertCount + m, next =
\* current + meridianVertCount; every index is that of an existing vertex.
C25_TriangleIndices ==
    (last.op = "buildBalloonGeometryData" /\ last.result.available) =>
      LET grid == getBalloonGrid(sources[last.src])
          P == grid.fullParallelCount
          M == grid.fullMeridianCount
          meridianVertCount == M + 1
          indices == last.result.indices
      IN  /\ \A p \in 0..(P - 2) : \A m \in 0..(M - 1) :
               LET current == p * meridianVertCount + m
                   next == current + meridianVertCount
                   at == 6 * (p * M + m)
               IN  /\ at + 6 <= Len(indices)
                   /\ <<indices[at + 1], indices[at + 2], indices[at + 3]>>
                        = <<current, next, current + 1>>
                   /\ <<indices[at + 4], indices[at + 5], indices[at + 6]>>
                        = <<current + 1, next, next + 1>>
          /\ Len(indices) = 6 * (P - 1) * M
          /\ \A i \in 1..Len(indices) :
               /\ indices[i] >= 0
               /\ indices[i] < P * (M + 1)
               /\ 3 * (indices[i] + 1) <= Len(last.result.vertices)

\* a mesh of several rows and columns whose last triangle ends at the last
\* vertex
C25_Witness ==
    /\ last.op = "buildBalloonGeometryData"
    /\ last.result.available
    /\ getBalloonGrid(sources[last.src]).fullParallelCount >= 3
    /\ getBalloonGrid(sources[last.src]).fullMeridianCount >= 4
    /\ Len(last.result.indices) >= 6
    /\ 3 * (last.result.indices[Len(last.result.indices)] + 1) = Len(last.result.vertices)

\* C28: whatever sequence of computeGlobalMaxLevel, clearGlobalMaxCache and
\* buildBalloonGeometryData calls is made on several sources (and however their
\* data are changed in between), a call on one source leaves the cache entry of
\* every other source as it is, and an entry that exists is changed only by
\* clearGlobalMaxCache for its own source.
C28_CacheIsolation ==
    [][\A t \in SourceIds :
         globalMaxCache'[t] # globalMaxCache[t] =>
           /\ last'.src = t
           /\ last'.op \in {"computeGlobalMaxLevel", "clearGlobalMaxCache",
                            "buildBalloonGeometryData"}
           /\ globalMaxCache[t].has =>
                /\ last'.op = "clearGlobalMaxCache"
                /\ ~globalMaxCache'[t].has]_vars

\* a call on one source has filled its entry while the entry of another
\* source, made before its data were changed, still holds the old value
C28_Witness ==
    /\ last.op \in {"computeGlobalMaxLevel", "buildBalloonGeometryData"}
    /\ globalMaxCache[last.src].has
    /\ \E t \in SourceIds :
         /\ t # last.src
         /\ globalMaxCache[t].has
         /\ globalMaxCache[t].value # ScanGlobalMax(sources[t])

\* C29: however initWasm and parseGLL calls interleave, the initialisation
\* sequence is begun at most once; every caller sees the outcome of that one
\* attempt (a call that resolves or goes on to parse finds wasmReady true, a
\* call rejected by the initialisation carries the stored wasmError, and a
\* failure is never followed by a new attempt); wasmReady and wasmError are
\* never both set, and wasmReady never goes back to false.
C29_LoaderSingleton ==
    /\ [](/\ loader.starts <= 1
          /\ ~(loader.wasmReady /\ loader.wasmError # "null")
          /\ (loader.wasmError # "null") => (loader.loadPromise = "rejected")
          /\ \A c \in DOMAIN callers :
               LET call == callers[c]
               IN  (call.pc = "settled" /\ call.kind \in {"initWasm", "parseGLL"}) =>
                     /\ loader.starts = 1
                     /\ (call.result = "resolved"
                         \/ call.error = "Failed to parse GLL file") => loader.wasmReady
                     /\ (call.result = "rejected"
                         /\ call.error # "Failed to parse GLL file") =>
                           /\ call.error = loader.wasmError
                           /\ loader.wasmError # "null")
    /\ [][/\ loader.wasmReady => loader'.wasmReady
          /\ loader.wasmError # "null" => loader'.wasmError = loader.wasmError
          /\ loader'.starts > loader.starts => loader.loadPromise = "null"]_vars

\* two callers have been rejected with the same stored error
C29_Witness ==
    /\ loader.wasmError = "Failed to fetch WASM"
    /\ \A c \in DOMAIN callers :
         /\ callers[c].pc = "settled"
         /\ callers[c].result = "rejected"
         /\ callers[c].error = loader.wasmError
    /\ \E c \in DOMAIN callers : callers[c].kind = "parseGLL"
    /\ \E c \in DOMAIN callers : callers[c].kind = "initWasm"

\* the loads of the provider that have been started and have not ended
PendingLoads == {c \in DOMAIN callers : callers[c].kind \in {"loadFile", "loadFromUrl"}
                                        /\ callers[c].pc # "settled"}

\* C30: isLoading is true whenever a load that was started by loadFile or
\* loadFromUrl has not yet ended, and false once every started load has ended.
C30_IsLoading ==
    provider.isLoading <=> PendingLoads # {}

=============================================================================
